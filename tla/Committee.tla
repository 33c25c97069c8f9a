----------------------------- MODULE Committee -----------------------------
(***************************************************************************)
(* The consensus committee (sei-tendermint/autobahn/types/committee.go):   *)
(* NewCommittee sums the weights of its argument, a Go map that is visited *)
(* in any order, in an unsigned integer that must not wrap; quorums and    *)
(* leaders are computed from the result.  Module VoteSets goes on with it. *)
(***************************************************************************)
EXTENDS Integers, FiniteSets, FiniteSetsExt

CONSTANTS
    Keys,          \* public keys, as numbers: their order is the order of keys
    MaxUint,       \* bound: the largest weight (2^64 - 1 in the code)
    MaxValidators

ASSUME CommitteeAssumption ==
    /\ Keys \subseteq Nat /\ IsFiniteSet(Keys)
    /\ MaxUint \in Nat /\ MaxValidators \in Nat

VARIABLES
    argument,     \* the weights passed in
    toVisit,      \* the keys the range loop has yet to visit
    weights,      \* the clone, without the weights 0 visited
    totalWeight,
    result        \* "looping", "error" or "committee"

committeeVars == <<argument, toVisit, weights, totalWeight, result>>

sum(w, K) == SumFunctionOnSet(w, K)

replicas == DOMAIN weights

CommitteeInit ==
    /\ argument \in [Keys -> 0..MaxUint]
    /\ toVisit = Keys
    /\ weights = argument
    /\ totalWeight = 0
    /\ result = "looping"

\* Mutant: no overflow check; the sum wraps.
visitUnchecked(k) ==
    /\ result = "looping"
    /\ k \in toVisit
    /\ toVisit' = toVisit \ {k}
    /\ weights' = IF argument[k] = 0
                  THEN [x \in DOMAIN weights \ {k} |-> weights[x]]
                  ELSE weights
    /\ totalWeight' = (totalWeight + argument[k]) % (MaxUint + 1)
    /\ UNCHANGED <<argument, result>>

\* One turn of the loop of NewCommittee.
visit(k) ==
    /\ result = "looping"
    /\ k \in toVisit
    /\ toVisit' = toVisit \ {k}
    /\ weights' = IF argument[k] = 0
                  THEN [x \in DOMAIN weights \ {k} |-> weights[x]]
                  ELSE weights
    /\ IF MaxUint - totalWeight < argument[k]
       THEN result' = "error" /\ UNCHANGED totalWeight
       ELSE totalWeight' = (totalWeight + argument[k]) % (MaxUint + 1) /\ UNCHANGED result
    /\ UNCHANGED argument

\* The checks after the loop.
finish ==
    /\ result = "looping"
    /\ toVisit = {}
    /\ result' = IF totalWeight = 0 \/ Cardinality(DOMAIN weights) > MaxValidators
                 THEN "error"
                 ELSE "committee"
    /\ UNCHANGED <<argument, toVisit, weights, totalWeight>>

NewCommittee == (\E k \in Keys : visit(k)) \/ finish
-----------------------------------------------------------------------------
\* Mutant: 3f <= N.
FaultyThird == totalWeight \div 3

\* Committee.Faulty, CommitQuorum (also PrepareQuorum, TimeoutQuorum and
\* AppQuorum) and LaneQuorum.
Faulty == (totalWeight - 1) \div 3
CommitQuorum == totalWeight - Faulty
LaneQuorum == Faulty + 1

\* Mutant: the first replica gets one number too many.
randomReplicaOffByOne(y) ==
    CHOOSE k \in replicas :
        LET before == sum(weights, {x \in replicas : x < k})
        IN  before <= y /\ y <= before + weights[k]

\* randomReplica: the replica whose stretch of the weights, laid end to end in
\* the order of the keys, holds y (the hash of the seed modulo totalWeight).
randomReplica(y) ==
    CHOOSE k \in replicas :
        LET before == sum(weights, {x \in replicas : x < k})
        IN  before <= y /\ y < before + weights[k]
-----------------------------------------------------------------------------
\* Whatever the order in which the map is visited, NewCommittee succeeds
\* exactly when the weights have a sum that is positive and fits, and few
\* enough of them are positive; and totalWeight is that sum.
AcceptedIffFits ==
    LET positive == {k \in Keys : argument[k] > 0}
        total    == sum(argument, Keys)
        fits     == /\ total \in 1..MaxUint
                    /\ Cardinality(positive) <= MaxValidators
    IN  /\ result = "committee" => /\ fits
                                   /\ totalWeight = total
                                   /\ replicas = positive
        /\ result = "error" => ~fits

\* Any two quorums overlap in more weight than may be faulty, a lane quorum
\* outweighs the faulty replicas and the correct ones form both.  This is what
\* consensus assumes of its quorums.
QuorumsShareHonest ==
    result = "committee" =>
        /\ \A Q1, Q2 \in SUBSET replicas :
              sum(weights, Q1) >= CommitQuorum /\ sum(weights, Q2) >= CommitQuorum
                 => sum(weights, Q1 \cap Q2) > Faulty
        /\ \A F \in SUBSET replicas :
              sum(weights, F) <= Faulty =>
                 /\ sum(weights, replicas \ F) >= CommitQuorum
                 /\ sum(weights, F) < LaneQuorum
                 /\ LaneQuorum <= CommitQuorum

\* randomReplica never runs past the last replica and leads to each replica
\* with exactly its weight out of totalWeight.
LeadersByWeight ==
    result = "committee" =>
        \A k \in replicas :
            Cardinality({y \in 0..(totalWeight - 1) : randomReplica(y) = k}) = weights[k]
=============================================================================
