-------------------------- MODULE CommitteeProofs --------------------------
(***************************************************************************)
(* Proofs about committees and vote collectors, for every set of keys and  *)
(* all weights.  They rest on facts about sums over finite sets, which are *)
(* proved first: to show that every finite set has a property, take a      *)
(* minimal one that has not and find a smaller one.  (The usual induction  *)
(* rules take the property as an operator, which the provers cannot        *)
(* instantiate.)                                                           *)
(***************************************************************************)
EXTENDS VoteSets, FiniteSetTheorems, Functions, WellFoundedInduction, TLAPS

\* A non-empty set of finite sets has a minimal element.
LEMMA MinimalSet ==
    ASSUME NEW T, T # {}, \A t \in T : IsFiniteSet(t)
    PROVE  \E x \in T : \A y \in T : ~(y \subseteq x /\ y # x)
<1> DEFINE S == UNION T
<1>1. T \subseteq FiniteSubsetsOf(S)
      BY DEF FiniteSubsetsOf
<1>2. PICK x \in T : \A y \in T : ~(<<y, x>> \in StrictSubsetOrdering(S))
      BY <1>1, WFMin, FS_StrictSubsetOrderingWellFounded
<1>3. ASSUME NEW y \in T PROVE ~(y \subseteq x /\ y # x)
      BY <1>2 DEF StrictSubsetOrdering
<1> QED BY <1>3

\* A non-empty set of natural numbers has a least element.
LEMMA LeastNat ==
    ASSUME NEW T, T \subseteq Nat, T # {}
    PROVE  \E x \in T : \A y \in T : x <= y
<1> DEFINE below(x) == 0..(x - 1)
           U == {below(x) : x \in T}
<1>1. \A u \in U : IsFiniteSet(u)
  <2>1. \A x \in T : IsFiniteSet(below(x))
        BY FS_Interval
  <2> QED BY <2>1
<1>2. U # {}
  <2>1. PICK x \in T : TRUE
        OBVIOUS
  <2>2. below(x) \in U
        OBVIOUS
  <2> QED BY <2>2
<1> HIDE DEF U
<1>3. PICK u \in U : \A v \in U : ~(v \subseteq u /\ v # u)
      BY <1>1, <1>2, MinimalSet
<1> USE DEF U
<1>4. PICK x \in T : u = below(x)
      OBVIOUS
<1>5. ASSUME NEW y \in T, y < x PROVE FALSE
  <2>1. below(y) \subseteq below(x)
        BY <1>5
  <2>2. y \in below(x) /\ y \notin below(y)
        BY <1>5
  <2> QED BY <1>3, <1>4, <2>1, <2>2
<1> QED BY <1>5

\* A non-empty finite set of natural numbers has a greatest element.
LEMMA GreatestNat ==
    ASSUME NEW T, T \subseteq Nat, T # {}, IsFiniteSet(T)
    PROVE  \E x \in T : \A y \in T : y <= x
<1> DEFINE above(x) == {y \in T : y > x}
           U == {above(x) : x \in T}
<1>1. \A u \in U : IsFiniteSet(u)
  <2>1. \A x \in T : IsFiniteSet(above(x))
        BY FS_Subset
  <2> QED BY <2>1
<1>2. U # {}
  <2>1. PICK x \in T : TRUE
        OBVIOUS
  <2>2. above(x) \in U
        OBVIOUS
  <2> QED BY <2>2
<1> HIDE DEF U
<1>3. PICK u \in U : \A v \in U : ~(v \subseteq u /\ v # u)
      BY <1>1, <1>2, MinimalSet
<1> USE DEF U
<1>4. PICK x \in T : u = above(x)
      OBVIOUS
<1>5. ASSUME NEW y \in T, x < y PROVE FALSE
  <2>1. above(y) \subseteq above(x)
    <3>1. \A z \in T : z > y => z > x
          BY <1>5
    <3> QED BY <3>1
  <2>2. y \in above(x) /\ y \notin above(y)
        BY <1>5
  <2> QED BY <1>3, <1>4, <2>1, <2>2
<1> QED BY <1>5
-----------------------------------------------------------------------------
(***************************************************************************)
(* The recursion of MapThenFoldSet, for an operation and a choice given as *)
(* functions.                                                              *)
(***************************************************************************)
isFold(op, base, choice, S, g) ==
    g = [s \in SUBSET S |-> IF s = {} THEN base ELSE op[choice[s]][g[s \ {choice[s]}]]]

\* A choice takes its element from the set.
isChoice(choice, S) == \A s \in SUBSET S : s # {} => choice[s] \in s

\* On a finite set the recursion determines the fold, ...
LEMMA FoldsAgree ==
    ASSUME NEW op, NEW base, NEW choice, NEW A, NEW B, NEW g, NEW h,
           isFold(op, base, choice, A, g), isFold(op, base, choice, B, h),
           NEW t \in SUBSET A, t \subseteq B, IsFiniteSet(t), isChoice(choice, t)
    PROVE  g[t] = h[t]
<1> DEFINE bad == {s \in SUBSET t : g[s] # h[s]}
<1>1. CASE bad = {}
      BY <1>1
<1>2. CASE bad # {}
  <2>1. \A s \in bad : IsFiniteSet(s)
        BY FS_Subset
  <2>2. PICK s \in bad : \A r \in bad : ~(r \subseteq s /\ r # s)
    <3> HIDE DEF bad
    <3> QED BY <1>2, <2>1, MinimalSet
  <2>3. s \in SUBSET A /\ s \in SUBSET B /\ s \subseteq t
        OBVIOUS
  <2>4. s # {}
        BY <2>3 DEF isFold
  <2> DEFINE r == s \ {choice[s]}
  <2>5. r \subseteq s /\ r # s
        BY <2>3, <2>4 DEF isChoice
  <2>6. g[r] = h[r]
        BY <2>2, <2>3, <2>5
  <2>7. g[s] = op[choice[s]][g[r]] /\ h[s] = op[choice[s]][h[r]]
        BY <2>3, <2>4 DEF isFold
  <2> QED BY <2>6, <2>7
<1> QED BY <1>1, <1>2

\* ... and has a solution, ...
LEMMA FoldsExist ==
    ASSUME NEW op, NEW base, NEW choice, NEW S, IsFiniteSet(S), isChoice(choice, S)
    PROVE  \E g : isFold(op, base, choice, S, g)
<1> DEFINE G(r) == CHOOSE g : isFold(op, base, choice, r, g)
           bad == {s \in SUBSET S : ~\E g : isFold(op, base, choice, s, g)}
<1>1. CASE bad = {}
      BY <1>1
<1>2. CASE bad # {}
  <2>1. \A s \in bad : IsFiniteSet(s)
        BY FS_Subset
  <2>2. PICK t \in bad : \A r \in bad : ~(r \subseteq t /\ r # t)
    <3> HIDE DEF bad
    <3> QED BY <1>2, <2>1, MinimalSet
  <2> DEFINE less(s) == s \ {choice[s]}
             value(s) == IF s = {} THEN base ELSE op[choice[s]][G(less(s))[less(s)]]
             g == [s \in SUBSET t |-> value(s)]
  <2>3. ASSUME NEW r \in SUBSET t, r # t PROVE isFold(op, base, choice, r, G(r))
        BY <2>2, <2>3
  <2>4. ASSUME NEW s \in SUBSET t
        PROVE  g[s] = IF s = {} THEN base ELSE op[choice[s]][g[less(s)]]
    <3>1. CASE s = {}
          BY <3>1
    <3>2. CASE s # {}
      <4> DEFINE r == less(s)
                 q == less(r)
      <4>1. r \in SUBSET t /\ r # t /\ r \in SUBSET r
            BY <3>2 DEF isChoice
      <4>2. isFold(op, base, choice, r, G(r))
            BY <2>3, <4>1
      <4>3. G(r)[r] = IF r = {} THEN base ELSE op[choice[r]][G(r)[q]]
        <5> HIDE DEF G
        <5> QED BY <4>1, <4>2 DEF isFold
      <4>4. CASE r = {}
        <5>1. G(r)[r] = base
              BY <4>3, <4>4
        <5>2. g[r] = base /\ g[s] = op[choice[s]][G(r)[r]]
              BY <3>2, <4>4
        <5> HIDE DEF g, G
        <5> QED BY <3>2, <5>1, <5>2
      <4>5. CASE r # {}
        <5>1. q \in SUBSET t /\ q # t /\ q \in SUBSET q /\ q \in SUBSET r
              BY <4>1
        <5>2. IsFiniteSet(q) /\ isChoice(choice, q)
              BY <5>1, FS_Subset DEF isChoice
        <5>3. G(r)[q] = G(q)[q]
          <6>1. isFold(op, base, choice, q, G(q))
                BY <2>3, <5>1
          <6> HIDE DEF G, q
          <6> QED BY <4>2, <5>1, <5>2, <6>1, FoldsAgree
        <5>4. g[r] = op[choice[r]][G(q)[q]] /\ g[s] = op[choice[s]][G(r)[r]]
              BY <3>2, <4>1, <4>5
        <5> HIDE DEF g, G, q
        <5> QED BY <3>2, <4>3, <4>5, <5>3, <5>4
      <4> QED BY <4>4, <4>5
    <3> QED BY <3>1, <3>2
  <2>5. isFold(op, base, choice, t, g)
    <3>1. g = [s \in SUBSET t |-> g[s]]
      <4> HIDE DEF value
      <4> QED OBVIOUS
    <3> HIDE DEF g
    <3> QED BY <2>4, <3>1 DEF isFold
  <2> QED BY <2>2, <2>5
<1> QED BY <1>1, <1>2

\* ... whose values stay in a set that is closed under the operation.
LEMMA FoldsTyped ==
    ASSUME NEW S, IsFiniteSet(S), NEW X, NEW base \in X, NEW op \in [S -> [X -> X]],
           NEW choice, isChoice(choice, S), NEW g, isFold(op, base, choice, S, g)
    PROVE  g \in [SUBSET S -> X]
<1> DEFINE bad == {s \in SUBSET S : g[s] \notin X}
<1>1. CASE bad = {}
  <2>1. g = [s \in SUBSET S |-> g[s]]
        BY DEF isFold
  <2> QED BY <1>1, <2>1
<1>2. CASE bad # {}
  <2>1. \A s \in bad : IsFiniteSet(s)
        BY FS_Subset
  <2>2. PICK s \in bad : \A r \in bad : ~(r \subseteq s /\ r # s)
    <3> HIDE DEF bad
    <3> QED BY <1>2, <2>1, MinimalSet
  <2>3. s \in SUBSET S /\ s # {}
        BY DEF isFold
  <2> DEFINE r == s \ {choice[s]}
  <2>4. r \subseteq s /\ r # s /\ choice[s] \in S
        BY <2>3 DEF isChoice
  <2>5. g[r] \in X
        BY <2>2, <2>3, <2>4
  <2>6. g[s] = op[choice[s]][g[r]]
        BY <2>3 DEF isFold
  <2> QED BY <2>4, <2>5, <2>6
<1> QED BY <1>1, <1>2
-----------------------------------------------------------------------------
(***************************************************************************)
(* Sums over finite sets.                                                  *)
(***************************************************************************)

\* How MapThenFoldSet takes a set apart.
pick(s) == CHOOSE x \in s : TRUE

isSum(w, S, g) ==
    g = [s \in SUBSET S |-> IF s = {} THEN 0 ELSE w[pick(s)] + g[s \ {pick(s)}]]

partialSums(w, S) == CHOOSE g : isSum(w, S, g)

\* The definition of SumFunctionOnSet, its fold expanded.
LEMMA SumUnfold ==
     ASSUME NEW w, NEW S PROVE SumFunctionOnSet(w, S) = partialSums(w, S)[S]
BY DEF SumFunctionOnSet, FoldFunctionOnSet, MapThenFoldSet, isSum, pick, partialSums

\* The element picked from a set is in it.
LEMMA PickIn == ASSUME NEW s, s # {} PROVE pick(s) \in s
BY DEF pick

\* Sums over the subsets of a finite set are determined by the recursion.
LEMMA SumsAgree ==
    ASSUME NEW w, NEW A, NEW B, NEW g, NEW h, isSum(w, A, g), isSum(w, B, h),
           NEW t \in SUBSET A, t \subseteq B, IsFiniteSet(t)
    PROVE  g[t] = h[t]
<1> DEFINE bad == {s \in SUBSET t : g[s] # h[s]}
<1>1. CASE bad = {}
      BY <1>1
<1>2. CASE bad # {}
  <2>1. \A s \in bad : IsFiniteSet(s)
        BY FS_Subset
  <2>2. PICK s \in bad : \A r \in bad : ~(r \subseteq s /\ r # s)
    <3> HIDE DEF bad
    <3> QED BY <1>2, <2>1, MinimalSet
  <2>3. s \in SUBSET A /\ s \in SUBSET B /\ s \subseteq t
        OBVIOUS
  <2>4. s # {}
        BY <2>3 DEF isSum
  <2> DEFINE r == s \ {pick(s)}
  <2>5. r \subseteq s /\ r # s
        BY <2>4, PickIn
  <2>6. g[r] = h[r]
        BY <2>2, <2>3, <2>5
  <2>7. g[s] = w[pick(s)] + g[r] /\ h[s] = w[pick(s)] + h[r]
        BY <2>3, <2>4 DEF isSum
  <2> QED BY <2>6, <2>7
<1> QED BY <1>1, <1>2

\* Numbers at finitely many places have sums.
Summable(w, S) == IsFiniteSet(S) /\ \A k \in S : w[k] \in Nat

\* A part of what has a sum has one.
LEMMA SummableSubset ==
    ASSUME NEW w, NEW S, Summable(w, S), NEW A \in SUBSET S
    PROVE  Summable(w, A)
BY FS_Subset DEF Summable

\* The recursion has a solution, as a fold.
LEMMA SumsExist ==
    ASSUME NEW w, NEW S, Summable(w, S)
    PROVE  isSum(w, S, partialSums(w, S)) /\ partialSums(w, S) \in [SUBSET S -> Nat]
<1> DEFINE op == [k \in S |-> [v \in Nat |-> w[k] + v]]
           choice == [s \in SUBSET S |-> pick(s)]
<1>1. isChoice(choice, S) /\ op \in [S -> [Nat -> Nat]] /\ IsFiniteSet(S)
      BY PickIn DEF isChoice, Summable
<1>2. \A k \in S : \A v \in Nat : op[k][v] = w[k] + v
      OBVIOUS
<1>3. \A s \in SUBSET S : choice[s] = pick(s)
      OBVIOUS
<1> HIDE DEF op, choice
<1>4. PICK g : isFold(op, 0, choice, S, g)
      BY <1>1, FoldsExist
<1>5. g \in [SUBSET S -> Nat]
      BY <1>1, <1>4, FoldsTyped
<1>6. ASSUME NEW s \in SUBSET S
      PROVE  g[s] = IF s = {} THEN 0 ELSE w[pick(s)] + g[s \ {pick(s)}]
  <2>1. g[s] = IF s = {} THEN 0 ELSE op[pick(s)][g[s \ {pick(s)}]]
        BY <1>3, <1>4 DEF isFold
  <2>2. s # {} => pick(s) \in S /\ g[s \ {pick(s)}] \in Nat
        BY <1>5, PickIn
  <2> QED BY <1>2, <2>1, <2>2
<1>7. isSum(w, S, g)
  <2>1. g = [s \in SUBSET S |-> g[s]]
        BY <1>5
  <2> QED BY <1>6, <2>1 DEF isSum
<1> DEFINE h == partialSums(w, S)
<1>8. isSum(w, S, h)
      BY <1>7 DEF partialSums
<1> HIDE DEF h
<1>9. \A s \in SUBSET S : IsFiniteSet(s)
      BY FS_Subset DEF Summable
<1>10. \A s \in SUBSET S : h[s] = g[s]
       BY <1>7, <1>8, <1>9, SumsAgree
<1>11. h = [s \in SUBSET S |-> h[s]]
       BY <1>8 DEF isSum
<1>12. h \in [SUBSET S -> Nat]
       BY <1>5, <1>10, <1>11
<1> QED BY <1>8, <1>12 DEF h

\* The sum over no keys is 0.
LEMMA SumEmpty == ASSUME NEW w PROVE SumFunctionOnSet(w, {}) = 0
<1>1. isSum(w, {}, partialSums(w, {}))
      BY SumsExist, FS_EmptySet DEF Summable
<1> QED BY <1>1, SumUnfold DEF isSum

\* The step of the recursion.
LEMMA SumPick ==
    ASSUME NEW w, NEW S, Summable(w, S), S # {}
    PROVE  SumFunctionOnSet(w, S) = w[pick(S)] + SumFunctionOnSet(w, S \ {pick(S)})
<1> DEFINE r == S \ {pick(S)}
           g == partialSums(w, S)
           h == partialSums(w, r)
<1>1. IsFiniteSet(r) /\ r \in SUBSET S /\ S \in SUBSET S
      BY FS_Subset DEF Summable
<1>2. isSum(w, S, g) /\ isSum(w, r, h)
      BY <1>1, SumsExist, SummableSubset
<1>3. g[r] = h[r]
  <2> HIDE DEF g, h, r
  <2> QED BY <1>1, <1>2, SumsAgree
<1>4. g[S] = w[pick(S)] + g[r]
  <2> HIDE DEF g, h
  <2> QED BY <1>1, <1>2 DEF isSum
<1> QED BY <1>3, <1>4, SumUnfold

\* A sum is a number, ...
LEMMA SumType ==
    ASSUME NEW w, NEW S, Summable(w, S)
    PROVE  SumFunctionOnSet(w, S) \in Nat
<1>1. partialSums(w, S) \in [SUBSET S -> Nat] /\ S \in SUBSET S
      BY SumsExist
<1>2. partialSums(w, S)[S] \in Nat
      BY <1>1
<1> QED BY <1>2, SumUnfold

\* ... depends on the numbers summed up only, ...
LEMMA SumSame ==
    ASSUME NEW w, NEW x, NEW S, Summable(w, S), \A k \in S : w[k] = x[k]
    PROVE  SumFunctionOnSet(w, S) = SumFunctionOnSet(x, S)
<1> DEFINE bad == {s \in SUBSET S : SumFunctionOnSet(w, s) # SumFunctionOnSet(x, s)}
<1>1. CASE bad = {}
      BY <1>1
<1>2. CASE bad # {}
  <2>1. \A s \in bad : IsFiniteSet(s)
        BY FS_Subset DEF Summable
  <2>2. PICK s \in bad : \A r \in bad : ~(r \subseteq s /\ r # s)
    <3> HIDE DEF bad
    <3> QED BY <1>2, <2>1, MinimalSet
  <2>3. s # {}
        BY SumEmpty
  <2>4. pick(s) \in s /\ s \ {pick(s)} \subseteq s /\ s \ {pick(s)} # s
        BY <2>3, PickIn
  <2>5. SumFunctionOnSet(w, s \ {pick(s)}) = SumFunctionOnSet(x, s \ {pick(s)})
        BY <2>2, <2>4
  <2>6. Summable(w, s) /\ Summable(x, s)
        BY <2>1 DEF Summable
  <2>7. /\ SumFunctionOnSet(w, s) = w[pick(s)] + SumFunctionOnSet(w, s \ {pick(s)})
        /\ SumFunctionOnSet(x, s) = x[pick(s)] + SumFunctionOnSet(x, s \ {pick(s)})
        BY <2>3, <2>6, SumPick
  <2> QED BY <2>4, <2>5, <2>7
<1> QED BY <1>1, <1>2

\* ... and is 0 when they are.
LEMMA SumZero ==
    ASSUME NEW w, NEW S, IsFiniteSet(S), \A k \in S : w[k] = 0
    PROVE  SumFunctionOnSet(w, S) = 0
<1> DEFINE bad == {s \in SUBSET S : SumFunctionOnSet(w, s) # 0}
<1>1. CASE bad = {}
      BY <1>1
<1>2. CASE bad # {}
  <2>1. \A s \in bad : IsFiniteSet(s)
        BY FS_Subset
  <2>2. PICK s \in bad : \A r \in bad : ~(r \subseteq s /\ r # s)
    <3> HIDE DEF bad
    <3> QED BY <1>2, <2>1, MinimalSet
  <2>3. s # {}
        BY SumEmpty
  <2>4. pick(s) \in s /\ s \ {pick(s)} \subseteq s /\ s \ {pick(s)} # s
        BY <2>3, PickIn
  <2>5. SumFunctionOnSet(w, s \ {pick(s)}) = 0
        BY <2>2, <2>4
  <2>6. Summable(w, s)
        BY <2>1 DEF Summable
  <2>7. SumFunctionOnSet(w, s) = w[pick(s)] + SumFunctionOnSet(w, s \ {pick(s)})
        BY <2>3, <2>6, SumPick
  <2> QED BY <2>4, <2>5, <2>7
<1> QED BY <1>1, <1>2

\* Any element may be taken out of a sum.
LEMMA SumRemove ==
    ASSUME NEW w, NEW S, Summable(w, S), NEW k \in S
    PROVE  SumFunctionOnSet(w, S) = w[k] + SumFunctionOnSet(w, S \ {k})
<1> DEFINE bad == {s \in SUBSET S :
                     \E x \in s : SumFunctionOnSet(w, s) # w[x] + SumFunctionOnSet(w, s \ {x})}
<1>1. CASE bad = {}
      BY <1>1
<1>2. CASE bad # {}
  <2>1. \A s \in bad : IsFiniteSet(s)
        BY FS_Subset DEF Summable
  <2>2. PICK s \in bad : \A r \in bad : ~(r \subseteq s /\ r # s)
    <3> HIDE DEF bad
    <3> QED BY <1>2, <2>1, MinimalSet
  <2>3. PICK x \in s : SumFunctionOnSet(w, s) # w[x] + SumFunctionOnSet(w, s \ {x})
        OBVIOUS
  <2> DEFINE p == pick(s)
  <2>4. p \in s
        BY PickIn
  <2>5. SumFunctionOnSet(w, s) = w[p] + SumFunctionOnSet(w, s \ {p})
        BY SummableSubset, SumPick
  <2>6. x # p
        BY <2>3, <2>5
  <2>7. SumFunctionOnSet(w, s \ {p}) = w[x] + SumFunctionOnSet(w, (s \ {p}) \ {x})
    <3>1. s \ {p} \subseteq s /\ s \ {p} # s /\ x \in s \ {p} /\ s \ {p} \in SUBSET S
          BY <2>4, <2>6
    <3> HIDE DEF p
    <3> QED BY <2>2, <3>1
  <2>8. SumFunctionOnSet(w, s \ {x}) = w[p] + SumFunctionOnSet(w, (s \ {x}) \ {p})
    <3>1. s \ {x} \subseteq s /\ s \ {x} # s /\ p \in s \ {x} /\ s \ {x} \in SUBSET S
          BY <2>4, <2>6
    <3> HIDE DEF p
    <3> QED BY <2>2, <3>1
  <2>9. (s \ {p}) \ {x} = (s \ {x}) \ {p}
        OBVIOUS
  <2> DEFINE c == SumFunctionOnSet(w, (s \ {p}) \ {x})
  <2>10. c \in Nat /\ w[x] \in Nat /\ w[p] \in Nat
    <3>1. (s \ {p}) \ {x} \in SUBSET S /\ p \in S /\ x \in S
          BY <2>4
    <3>2. Summable(w, (s \ {p}) \ {x})
          BY <3>1, SummableSubset
    <3> QED BY <3>1, <3>2, SumType DEF Summable
  <2>11. SumFunctionOnSet(w, s) = w[p] + (w[x] + c) /\ SumFunctionOnSet(w, s \ {x}) = w[p] + c
         BY <2>5, <2>7, <2>8, <2>9
  <2>12. w[p] + (w[x] + c) = w[x] + (w[p] + c)
    <3> HIDE DEF c, p
    <3> QED BY <2>10
  <2> QED BY <2>3, <2>11, <2>12
<1> QED BY <1>1, <1>2

\* Any element may be added to a sum.
LEMMA SumAdd ==
    ASSUME NEW w, NEW S, Summable(w, S), NEW k, k \notin S, w[k] \in Nat
    PROVE  /\ Summable(w, S \cup {k})
           /\ SumFunctionOnSet(w, S \cup {k}) = SumFunctionOnSet(w, S) + w[k]
<1> DEFINE T == S \cup {k}
<1>1. Summable(w, T)
      BY FS_AddElement DEF Summable
<1>2. T \ {k} = S
      OBVIOUS
<1>3. SumFunctionOnSet(w, T) = w[k] + SumFunctionOnSet(w, T \ {k})
  <2>1. k \in T
        OBVIOUS
  <2> HIDE DEF T
  <2> QED BY <1>1, <2>1, SumRemove
<1>4. SumFunctionOnSet(w, S) \in Nat
      BY SumType
<1>5. SumFunctionOnSet(w, T) = SumFunctionOnSet(w, S) + w[k]
  <2>1. SumFunctionOnSet(w, T) = w[k] + SumFunctionOnSet(w, S)
        BY <1>2, <1>3
  <2> QED BY ONLY <1>4, <2>1, w[k] \in Nat
<1> QED BY <1>1, <1>5

\* A sum is that of a part and that of the rest.
LEMMA SumSubset ==
    ASSUME NEW w, NEW S, Summable(w, S), NEW A \in SUBSET S
    PROVE  SumFunctionOnSet(w, S) = SumFunctionOnSet(w, A) + SumFunctionOnSet(w, S \ A)
<1> DEFINE sm(T) == SumFunctionOnSet(w, T)
           bad == {s \in SUBSET A : sm(S) # sm(s) + sm(S \ s)}
<1>1. ASSUME NEW s \in SUBSET S
      PROVE  Summable(w, s) /\ Summable(w, S \ s) /\ sm(s) \in Nat /\ sm(S \ s) \in Nat
      BY SummableSubset, SumType
<1>2. CASE bad = {}
      BY <1>1, <1>2
<1>3. CASE bad # {}
  <2>1. \A s \in bad : IsFiniteSet(s)
        BY <1>1 DEF Summable
  <2>2. PICK s \in bad : \A r \in bad : ~(r \subseteq s /\ r # s)
    <3> HIDE DEF bad
    <3> QED BY <1>3, <2>1, MinimalSet
  <2>3. s # {}
    <3>1. sm(S \ {}) = sm(S) /\ sm({}) = 0
      <4>1. S \ {} = S
            OBVIOUS
      <4> QED BY <4>1, SumEmpty
    <3> QED BY <1>1, <3>1
  <2>4. PICK x \in s : TRUE
        BY <2>3
  <2> DEFINE r == s \ {x}
  <2>5. r \in SUBSET A /\ r \subseteq s /\ r # s /\ x \in S
        OBVIOUS
  <2>6. sm(S) = sm(r) + sm(S \ r)
        BY <2>2, <2>5
  <2>7. sm(s) = w[x] + sm(r)
        BY <1>1, SumRemove
  <2>8. sm(S \ r) = w[x] + sm(S \ s)
    <3>1. (S \ r) \ {x} = S \ s /\ x \in S \ r /\ Summable(w, S \ r)
          BY <1>1, <2>5
    <3>2. sm(S \ r) = w[x] + sm((S \ r) \ {x})
          BY <3>1, SumRemove
    <3> QED BY <3>1, <3>2
  <2>9. sm(r) \in Nat /\ sm(S \ s) \in Nat /\ w[x] \in Nat
        BY <1>1, <2>5 DEF Summable
  <2> HIDE DEF r, sm
  <2>10. sm(S) = sm(s) + sm(S \ s)
         BY <2>6, <2>7, <2>8, <2>9
  <2> QED BY <2>10
<1> QED BY <1>2, <1>3

\* A part adds up to no more than the whole.
LEMMA SumSmaller ==
    ASSUME NEW w, NEW S, Summable(w, S), NEW A \in SUBSET S
    PROVE  SumFunctionOnSet(w, A) <= SumFunctionOnSet(w, S)
<1> DEFINE sm(T) == SumFunctionOnSet(w, T)
<1>1. sm(S) = sm(A) + sm(S \ A)
      BY SumSubset
<1>2. sm(A) \in Nat /\ sm(S \ A) \in Nat
      BY SumType, SummableSubset
<1> HIDE DEF sm
<1>3. sm(A) <= sm(S)
      BY <1>1, <1>2
<1> QED BY <1>3 DEF sm

\* Inclusion and exclusion.
LEMMA SumOverlap ==
    ASSUME NEW w, NEW S, Summable(w, S), NEW A \in SUBSET S, NEW B \in SUBSET S
    PROVE  SumFunctionOnSet(w, A) + SumFunctionOnSet(w, B)
             = SumFunctionOnSet(w, A \cup B) + SumFunctionOnSet(w, A \cap B)
<1> DEFINE sm(T) == SumFunctionOnSet(w, T)
           U == A \cup B
           I == A \cap B
<1>1. /\ I \in SUBSET B /\ A \in SUBSET U /\ U \in SUBSET S /\ U \ A = B \ I
      OBVIOUS
<1> HIDE DEF U, I
<1>2. Summable(w, B) /\ Summable(w, U)
      BY <1>1, SummableSubset
<1>3. sm(B) = sm(I) + sm(B \ I) /\ sm(U) = sm(A) + sm(U \ A)
      BY <1>1, <1>2, SumSubset
<1>4. sm(I) \in Nat /\ sm(B \ I) \in Nat /\ sm(A) \in Nat
      BY <1>1, <1>2, SummableSubset, SumType
<1>5. sm(U \ A) = sm(B \ I)
      BY <1>1
<1> HIDE DEF sm
<1>6. sm(A) + sm(B) = sm(U) + sm(I)
      BY <1>3, <1>4, <1>5
<1> QED BY <1>6 DEF sm, U, I

-----------------------------------------------------------------------------
USE DEF sum

-----------------------------------------------------------------------------
(***************************************************************************)
(* NewCommittee.                                                           *)
(***************************************************************************)
Positive == {k \in Keys : argument[k] > 0}

Fits == sum(argument, Keys) \in 1..MaxUint /\ Cardinality(Positive) <= MaxValidators

\* The sum is that of the keys visited, and the clone has lost those of weight 0.
LoopInv ==
    /\ argument \in [Keys -> 0..MaxUint]
    /\ toVisit \in SUBSET Keys
    /\ weights = [k \in toVisit \cup Positive |-> argument[k]]
    /\ totalWeight \in 0..MaxUint
    /\ result \in {"looping", "error", "committee"}
    /\ result # "error" => totalWeight = sum(argument, Keys \ toVisit)
    /\ result = "committee" => toVisit = {} /\ Fits
    /\ result = "error" => ~Fits

\* The weights passed in have sums.
LEMMA ArgumentSums ==
    ASSUME argument \in [Keys -> 0..MaxUint]
    PROVE  \A K \in SUBSET Keys :
              /\ IsFiniteSet(K)
              /\ \A k \in K : argument[k] \in Nat
              /\ sum(argument, K) \in Nat
              /\ sum(argument, Keys) >= sum(argument, K)
              /\ \A k \in Keys \ K :
                    sum(argument, K \cup {k}) = sum(argument, K) + argument[k]
<1>1. Summable(argument, Keys)
      BY CommitteeAssumption DEF Summable
<1> TAKE K \in SUBSET Keys
<1>2. Summable(argument, K)
      BY <1>1, SummableSubset
<1>3. sum(argument, K) \in Nat /\ sum(argument, Keys) \in Nat
      BY <1>1, <1>2, SumType
<1>4. sum(argument, K) <= sum(argument, Keys)
      BY <1>1, SumSmaller
<1>5. sum(argument, Keys) >= sum(argument, K)
      BY <1>3, <1>4
<1>6. ASSUME NEW k \in Keys \ K
      PROVE  sum(argument, K \cup {k}) = sum(argument, K) + argument[k]
  <2>1. argument[k] \in Nat /\ k \notin K
        BY CommitteeAssumption
  <2> QED BY <1>2, <2>1, SumAdd
<1>7. IsFiniteSet(K) /\ \A k \in K : argument[k] \in Nat
      BY <1>2 DEF Summable
<1> QED BY <1>3, <1>5, <1>6, <1>7

\* The whole sum is that of the keys that stay.
LEMMA PositiveSum ==
    ASSUME argument \in [Keys -> 0..MaxUint]
    PROVE  sum(argument, Positive) = sum(argument, Keys)
<1>1. Positive \in SUBSET Keys /\ \A k \in Keys \ Positive : argument[k] = 0
      BY CommitteeAssumption DEF Positive
<1>2. Summable(argument, Keys) /\ IsFiniteSet(Keys \ Positive)
      BY CommitteeAssumption, FS_Subset DEF Summable
<1>3. sum(argument, Keys \ Positive) = 0
      BY <1>1, <1>2, SumZero
<1>4. sum(argument, Keys) = sum(argument, Positive) + sum(argument, Keys \ Positive)
      BY <1>1, <1>2, SumSubset
<1>5. sum(argument, Positive) \in Nat
      BY <1>1, <1>2, SummableSubset, SumType
<1> QED BY <1>3, <1>4, <1>5

\* NewCommittee starts with everything to visit and a sum of 0.
LEMMA LoopInit == CommitteeInit => LoopInv
<1> SUFFICES ASSUME CommitteeInit PROVE LoopInv
    OBVIOUS
<1> USE DEF CommitteeInit
<1>1. weights = [k \in toVisit \cup Positive |-> argument[k]]
  <2>1. toVisit \cup Positive = Keys
        BY DEF Positive
  <2> QED BY <2>1
<1>2. totalWeight = sum(argument, Keys \ toVisit)
  <2>1. Keys \ toVisit = {}
        OBVIOUS
  <2> QED BY <2>1, SumEmpty
<1> QED BY <1>1, <1>2, CommitteeAssumption DEF LoopInv

\* A visit moves one weight from those to visit into the sum, or overflows.
LEMMA LoopVisit ==
    ASSUME LoopInv, NEW k \in Keys, visit(k)
    PROVE  LoopInv'
<1> USE DEF LoopInv
<1>1. argument' = argument /\ argument' \in [Keys -> 0..MaxUint] /\ toVisit' = toVisit \ {k}
      /\ k \in toVisit /\ result = "looping" /\ argument[k] \in 0..MaxUint
      BY DEF visit
<1>2. Positive' = Positive /\ (Fits' <=> Fits)
      BY <1>1 DEF Positive, Fits
<1>3. weights' = [x \in toVisit' \cup Positive' |-> argument'[x]]
  <2>1. CASE argument[k] = 0
    <3>1. toVisit' \cup Positive' = (toVisit \cup Positive) \ {k}
          BY <1>1, <1>2, <2>1 DEF Positive
    <3> QED BY <1>1, <2>1, <3>1 DEF visit
  <2>2. CASE argument[k] # 0
    <3>1. toVisit' \cup Positive' = toVisit \cup Positive
          BY <1>1, <1>2, <2>2, CommitteeAssumption DEF Positive
    <3> QED BY <1>1, <2>2, <3>1 DEF visit
  <2> QED BY <2>1, <2>2
<1>4. /\ sum(argument, Keys \ toVisit) \in Nat
      /\ sum(argument, Keys \ toVisit') = sum(argument, Keys \ toVisit) + argument[k]
      /\ sum(argument, Keys) >= sum(argument, Keys \ toVisit')
  <2>1. Keys \ toVisit' = (Keys \ toVisit) \cup {k} /\ k \in Keys \ (Keys \ toVisit)
        BY <1>1
  <2>2. Keys \ toVisit \in SUBSET Keys /\ Keys \ toVisit' \in SUBSET Keys
        OBVIOUS
  <2> QED BY <2>1, <2>2, ArgumentSums
<1>5. CASE MaxUint - totalWeight < argument[k]
  <2>1. result' = "error" /\ totalWeight' = totalWeight
        BY <1>5 DEF visit
  <2>2. sum(argument, Keys) > MaxUint
        BY <1>1, <1>4, <1>5, CommitteeAssumption, ArgumentSums
  <2>3. ~Fits
        BY <2>2, CommitteeAssumption DEF Fits
  <2> QED BY <1>1, <1>2, <1>3, <2>1, <2>3
<1>6. CASE ~(MaxUint - totalWeight < argument[k])
  <2>1. result' = "looping" /\ totalWeight' = (totalWeight + argument[k]) % (MaxUint + 1)
        BY <1>1, <1>6 DEF visit
  <2>2. totalWeight + argument[k] \in 0..MaxUint
        BY <1>1, <1>6, CommitteeAssumption
  <2>3. totalWeight' = totalWeight + argument[k]
        BY <2>1, <2>2, CommitteeAssumption
  <2> QED BY <1>1, <1>2, <1>3, <1>4, <2>1, <2>2, <2>3
<1> QED BY <1>5, <1>6

\* The checks after the loop decide by the whole sum.
LEMMA LoopFinish == ASSUME LoopInv, finish PROVE LoopInv'
<1> USE DEF LoopInv, finish
<1>1. Positive' = Positive /\ (Fits' <=> Fits)
      BY DEF Positive, Fits
<1>2. totalWeight = sum(argument, Keys) /\ DOMAIN weights = Positive
  <2>1. Keys \ toVisit = Keys /\ toVisit \cup Positive = Positive
        OBVIOUS
  <2> QED BY <2>1
<1>3. Cardinality(Positive) \in Nat
  <2>1. IsFiniteSet(Positive)
        BY CommitteeAssumption, FS_Subset DEF Positive
  <2> QED BY <2>1, FS_CardinalityType
<1>4. Fits <=> ~(totalWeight = 0 \/ Cardinality(DOMAIN weights) > MaxValidators)
      BY <1>2, <1>3, CommitteeAssumption DEF Fits
<1> QED BY <1>1, <1>4

\* What a committee is: positive weights with the sum totalWeight.
LEMMA CommitteeFacts ==
    ASSUME LoopInv, result = "committee"
    PROVE  /\ replicas = Positive /\ replicas \in SUBSET Keys
           /\ IsFiniteSet(replicas)
           /\ \A k \in replicas : weights[k] \in Nat \ {0}
           /\ totalWeight \in Nat \ {0}
           /\ sum(weights, replicas) = totalWeight
<1> USE DEF LoopInv
<1>1. toVisit \cup Positive = Positive /\ Keys \ toVisit = Keys
      OBVIOUS
<1>2. replicas = Positive /\ \A k \in replicas : weights[k] = argument[k]
      BY <1>1 DEF replicas
<1>3. replicas \in SUBSET Keys /\ IsFiniteSet(replicas)
      BY <1>2, CommitteeAssumption, FS_Subset DEF Positive
<1>4. \A k \in replicas : weights[k] \in Nat \ {0}
      BY <1>2, CommitteeAssumption DEF Positive
<1>5. totalWeight = sum(argument, Keys) /\ totalWeight \in Nat \ {0}
      BY <1>1, CommitteeAssumption DEF Fits
<1>6. sum(weights, replicas) = sum(argument, replicas)
      BY <1>2, <1>3, <1>4, SumSame DEF Summable
<1> QED BY <1>2, <1>3, <1>4, <1>5, <1>6, PositiveSum

\* AcceptedIffFits follows from the loop's invariant ...
LEMMA LoopAccepts == LoopInv => AcceptedIffFits
<1> SUFFICES ASSUME LoopInv PROVE AcceptedIffFits
    OBVIOUS
<1>1. CASE result = "committee"
  <2>1. Keys \ toVisit = Keys
        BY <1>1 DEF LoopInv
  <2>2. totalWeight = sum(argument, Keys) /\ Fits
        BY <1>1, <2>1 DEF LoopInv
  <2> QED BY <1>1, <2>2, CommitteeFacts DEF AcceptedIffFits, Fits, Positive
<1>2. CASE result # "committee"
      BY <1>2 DEF LoopInv, AcceptedIffFits, Fits, Positive
<1> QED BY <1>1, <1>2

\* ... and so does QuorumsShareHonest, by inclusion and exclusion ...
LEMMA LoopQuorums == LoopInv => QuorumsShareHonest
<1> SUFFICES ASSUME LoopInv, result = "committee"
             PROVE  QuorumsShareHonest
    BY DEF QuorumsShareHonest
<1> DEFINE N == totalWeight
           R == replicas
<1>1. Summable(weights, R) /\ N \in Nat \ {0} /\ sum(weights, R) = N
      BY CommitteeFacts DEF Summable
<1>2. Faulty \in Nat /\ 3 * Faulty < N /\ Faulty = (N - 1) \div 3
      BY <1>1 DEF Faulty
<1>3. CommitQuorum = N - Faulty /\ LaneQuorum = Faulty + 1
      BY DEF CommitQuorum, LaneQuorum
<1>4. ASSUME NEW Q1 \in SUBSET R, NEW Q2 \in SUBSET R,
             sum(weights, Q1) >= CommitQuorum, sum(weights, Q2) >= CommitQuorum
      PROVE  sum(weights, Q1 \cap Q2) > Faulty
  <2>1. Q1 \cap Q2 \in SUBSET R /\ Q1 \cup Q2 \in SUBSET R
        OBVIOUS
  <2> HIDE DEF R
  <2>2. /\ sum(weights, Q1 \cap Q2) \in Nat /\ sum(weights, Q1 \cup Q2) \in Nat
        /\ sum(weights, Q1) \in Nat /\ sum(weights, Q2) \in Nat
        BY <1>1, <2>1, SummableSubset, SumType
  <2>3. sum(weights, Q1) + sum(weights, Q2)
          = sum(weights, Q1 \cup Q2) + sum(weights, Q1 \cap Q2)
        BY <1>1, SumOverlap
  <2>4. sum(weights, Q1 \cup Q2) <= sum(weights, R)
        BY <1>1, <2>1, SumSmaller
  <2> QED BY <1>1, <1>2, <1>3, <1>4, <2>2, <2>3, <2>4
<1>5. ASSUME NEW F \in SUBSET R, sum(weights, F) <= Faulty
      PROVE  /\ sum(weights, R \ F) >= CommitQuorum
             /\ sum(weights, F) < LaneQuorum
             /\ LaneQuorum <= CommitQuorum
  <2> HIDE DEF R
  <2>1. sum(weights, F) \in Nat /\ sum(weights, R \ F) \in Nat
        BY <1>1, SummableSubset, SumType
  <2>2. sum(weights, R) = sum(weights, F) + sum(weights, R \ F)
        BY <1>1, SumSubset
  <2> QED BY <1>1, <1>2, <1>3, <1>5, <2>1, <2>2
<1> QED BY <1>4, <1>5 DEF QuorumsShareHonest

\* The stretch of replica k begins after the weights of the smaller keys.
Smaller(k) == {x \in replicas : x < k}
before(k) == sum(weights, Smaller(k))

\* Where stretches end.
LEMMA StretchEnds ==
    ASSUME LoopInv, result = "committee"
    PROVE  \A k \in replicas :
              /\ before(k) \in Nat /\ weights[k] \in Nat
              /\ \A K \in SUBSET replicas :
                    /\ Smaller(k) \cup {k} \subseteq K
                         => before(k) + weights[k] <= sum(weights, K)
                    /\ Smaller(k) \cup {k} = K => before(k) + weights[k] = sum(weights, K)
<1> SUFFICES ASSUME NEW k \in replicas, NEW K \in SUBSET replicas
             PROVE  /\ before(k) \in Nat /\ weights[k] \in Nat
                    /\ Smaller(k) \cup {k} \subseteq K
                         => before(k) + weights[k] <= sum(weights, K)
                    /\ Smaller(k) \cup {k} = K
                         => before(k) + weights[k] = sum(weights, K)
    OBVIOUS
<1> DEFINE S == Smaller(k)
           T == S \cup {k}
<1>1. Summable(weights, replicas) /\ replicas \subseteq Nat
      BY CommitteeFacts, CommitteeAssumption DEF Summable
<1>2. S \in SUBSET replicas /\ T \in SUBSET replicas /\ k \notin S /\ k \in T
      BY <1>1 DEF Smaller
<1>3. Summable(weights, S) /\ Summable(weights, T) /\ Summable(weights, K)
      BY <1>1, <1>2, SummableSubset
<1>5. T \ {k} = S
      BY <1>2
<1>6. before(k) \in Nat
      BY <1>3, SumType DEF before
<1>7. sum(weights, T) = weights[k] + before(k)
  <2>1. sum(weights, T) = weights[k] + sum(weights, T \ {k})
    <3> HIDE DEF T
    <3> QED BY <1>2, <1>3, SumRemove
  <2> QED BY <1>5, <2>1 DEF before
<1>8. ASSUME T \subseteq K PROVE sum(weights, T) <= sum(weights, K)
  <2>1. T \in SUBSET K
        BY <1>8
  <2> HIDE DEF T
  <2> QED BY <1>3, <2>1, SumSmaller
<1>9. weights[k] \in Nat
      BY <1>1 DEF Summable
<1>10. weights[k] + before(k) = before(k) + weights[k]
      BY <1>6, <1>9
<1>11. ASSUME T \subseteq K PROVE before(k) + weights[k] <= sum(weights, K)
       BY <1>7, <1>8, <1>10, <1>11
<1>12. ASSUME T = K PROVE before(k) + weights[k] = sum(weights, K)
       BY <1>7, <1>10, <1>12
<1> QED BY <1>6, <1>9, <1>11, <1>12

\* Every number below totalWeight is in a stretch.
LEMMA StretchesCover ==
    ASSUME LoopInv, result = "committee", NEW y \in 0..(totalWeight - 1)
    PROVE  \E k \in replicas : before(k) <= y /\ y < before(k) + weights[k]
<1>1. /\ IsFiniteSet(replicas) /\ replicas \subseteq Nat
      /\ totalWeight \in Nat \ {0} /\ sum(weights, replicas) = totalWeight
      BY CommitteeFacts, CommitteeAssumption
<1> DEFINE T == {k \in replicas : y < before(k) + weights[k]}
<1>2. replicas # {}
      BY <1>1, SumEmpty
<1>3. PICK last \in replicas : \A x \in replicas : x <= last
      BY <1>1, <1>2, GreatestNat
<1>4. last \in T
  <2>1. Smaller(last) \cup {last} = replicas
    <3>1. \A x \in replicas : x < last \/ x = last
          BY <1>1, <1>3
    <3> QED BY <3>1 DEF Smaller
  <2>2. before(last) + weights[last] = totalWeight
        BY <1>1, <2>1, StretchEnds
  <2> QED BY <1>1, <2>2
<1>5. T \subseteq Nat /\ T # {}
      BY <1>1, <1>4
<1>6. PICK k \in T : \A j \in T : k <= j
  <2> HIDE DEF T
  <2> QED BY <1>5, LeastNat
<1>7. ASSUME y < before(k) PROVE FALSE
  <2>1. Smaller(k) # {}
        BY <1>7, SumEmpty DEF before
  <2>2. IsFiniteSet(Smaller(k)) /\ Smaller(k) \subseteq Nat
        BY <1>1, FS_Subset DEF Smaller
  <2>3. PICK j \in Smaller(k) : \A x \in Smaller(k) : x <= j
        BY <2>1, <2>2, GreatestNat
  <2>4. j \in replicas /\ j < k /\ Smaller(j) \cup {j} = Smaller(k)
        /\ Smaller(k) \in SUBSET replicas
    <3>1. j \in replicas /\ j < k /\ Smaller(k) \in SUBSET replicas
          BY DEF Smaller
    <3>2. \A x \in replicas : x < k <=> x < j \/ x = j
      <4>1. \A x \in replicas : x < k => x <= j
            BY <2>3 DEF Smaller
      <4> QED BY <1>1, <3>1, <4>1
    <3> QED BY <3>1, <3>2 DEF Smaller
  <2>5. before(j) + weights[j] = before(k)
        BY <2>4, StretchEnds DEF before
  <2>6. j \in T
        BY <1>7, <2>4, <2>5
  <2> QED BY <1>1, <1>6, <2>4, <2>6
<1>8. before(k) \in Nat
      BY StretchEnds
<1> QED BY <1>7, <1>8

\* ... of one replica only, which randomReplica finds.
LEMMA StretchOfReplica ==
    ASSUME LoopInv, result = "committee", NEW k \in replicas
    PROVE  {y \in 0..(totalWeight - 1) : randomReplica(y) = k}
             = before(k)..(before(k) + weights[k] - 1)
<1> DEFINE In(y, j) == before(j) <= y /\ y < before(j) + weights[j]
<1>1. \A y : randomReplica(y) = CHOOSE j \in replicas : In(y, j)
      BY DEF randomReplica, before, Smaller
<1>2. \A j \in replicas : before(j) \in Nat /\ weights[j] \in Nat
      BY StretchEnds
<1>3. replicas \subseteq Nat /\ totalWeight \in Nat
      /\ sum(weights, replicas) = totalWeight
      BY CommitteeFacts, CommitteeAssumption
<1>4. ASSUME NEW i \in replicas, NEW j \in replicas, i < j
      PROVE  before(i) + weights[i] <= before(j)
  <2>1. Smaller(i) \cup {i} \subseteq Smaller(j) /\ Smaller(j) \in SUBSET replicas
    <3>1. \A x \in replicas : x < i \/ x = i => x < j
          BY <1>3, <1>4
    <3> QED BY <3>1 DEF Smaller
  <2> QED BY <2>1, StretchEnds DEF before
<1>5. ASSUME NEW y \in Nat, NEW i \in replicas, NEW j \in replicas, In(y, i), In(y, j)
      PROVE  i = j
  <2>1. ~(i < j) /\ ~(j < i)
        BY <1>2, <1>4, <1>5
  <2> QED BY <1>3, <2>1
<1>6. before(k) + weights[k] <= totalWeight
  <2>1. Smaller(k) \cup {k} \subseteq replicas /\ replicas \in SUBSET replicas
        BY DEF Smaller
  <2> QED BY <1>3, <2>1, StretchEnds
<1>7. ASSUME NEW y \in 0..(totalWeight - 1)
      PROVE  randomReplica(y) = k <=> In(y, k)
  <2>1. \E j \in replicas : In(y, j)
        BY StretchesCover
  <2>2. randomReplica(y) \in replicas /\ In(y, randomReplica(y))
    <3> HIDE DEF In
    <3> QED BY <1>1, <2>1
  <2>3. y \in Nat
        BY <1>3
  <2> HIDE DEF In
  <2> QED BY <1>5, <2>2, <2>3
<1>8. \A y \in before(k)..(before(k) + weights[k] - 1) :
        y \in 0..(totalWeight - 1) /\ In(y, k)
      BY <1>2, <1>3, <1>6
<1>9. \A y \in 0..(totalWeight - 1) :
        In(y, k) => y \in before(k)..(before(k) + weights[k] - 1)
      BY <1>2, <1>3
<1> HIDE DEF In
<1> QED BY <1>7, <1>8, <1>9

\* ... and LeadersByWeight: a stretch holds as many numbers as its weight.
LEMMA LoopLeaders == LoopInv => LeadersByWeight
<1> SUFFICES ASSUME LoopInv, result = "committee", NEW k \in replicas
             PROVE  Cardinality({y \in 0..(totalWeight - 1) : randomReplica(y) = k}) = weights[k]
    BY DEF LeadersByWeight
<1>1. before(k) \in Nat /\ weights[k] \in Nat /\ weights[k] # 0
      BY StretchEnds, CommitteeFacts
<1> DEFINE a == before(k)
           b == before(k) + weights[k] - 1
<1>2. Cardinality(a..b) = IF a > b THEN 0 ELSE b - a + 1
  <2>1. a \in Int /\ b \in Int
        BY <1>1
  <2> HIDE DEF a, b
  <2> QED BY <2>1, FS_Interval
<1>3. Cardinality(a..b) = weights[k]
      BY <1>1, <1>2
<1> QED BY <1>3, StretchOfReplica
-----------------------------------------------------------------------------
(***************************************************************************)
(* The collectors.                                                         *)
(***************************************************************************)
voters(V) == {v.key : v \in V}

inGroup(C, g) == {v \in C : group(v) = g}

\* At most one vote for each replica.
OneEach(C) ==
    /\ \A v \in C : v \in Votes /\ v.key \in replicas
    /\ \A v, w \in C : v.key = w.key => v = w

\* The groups hold the votes of C and their weights.
Match(C, groups) ==
    /\ DOMAIN groups = {group(v) : v \in C}
    /\ \A g \in DOMAIN groups :
          /\ groups[g].votes = inGroup(C, g)
          /\ groups[g].weight = sum(weights, voters(groups[g].votes))

\* Voters are replicas, whose weights have sums.
LEMMA VotersWeigh ==
    ASSUME Summable(weights, replicas), NEW C, OneEach(C), NEW V, V \subseteq C
    PROVE  /\ voters(V) \in SUBSET replicas
           /\ Summable(weights, voters(V))
           /\ sum(weights, voters(V)) \in Nat
<1>1. voters(V) \in SUBSET replicas
      BY DEF OneEach, voters
<1>2. Summable(weights, voters(V))
      BY <1>1, SummableSubset
<1> QED BY <1>1, <1>2, SumType

\* Fewer voters weigh less.
LEMMA VotersShrink ==
    ASSUME Summable(weights, replicas), NEW C, OneEach(C),
           NEW W, W \subseteq C, NEW V, V \subseteq W
    PROVE  /\ sum(weights, voters(V)) \in Nat /\ sum(weights, voters(W)) \in Nat
           /\ sum(weights, voters(V)) <= sum(weights, voters(W))
<1>1. voters(V) \in SUBSET voters(W)
      BY DEF voters
<1>2. V \subseteq C
      OBVIOUS
<1>3. /\ Summable(weights, voters(W))
      /\ sum(weights, voters(V)) \in Nat /\ sum(weights, voters(W)) \in Nat
      BY <1>2, VotersWeigh
<1>4. sum(weights, voters(V)) <= sum(weights, voters(W))
      BY <1>1, <1>3, SumSmaller
<1> QED BY <1>3, <1>4

\* Removing a vote keeps groups exact, ...
LEMMA MatchRemove ==
    ASSUME Summable(weights, replicas), NEW C, OneEach(C),
           NEW groups, Match(C, groups), NEW old \in C
    PROVE  Match(C \ {old}, remove(groups, group(old), old))
<1> DEFINE D == C \ {old}
           g0 == group(old)
           all == groups[g0].votes
           votes == all \ {old}
           new == remove(groups, g0, old)
<1>1. /\ g0 \in DOMAIN groups /\ all = inGroup(C, g0)
      /\ old \in all /\ votes = inGroup(D, g0)
      BY DEF Match, inGroup
<1>2. new = [h \in DOMAIN groups \ (IF votes = {} THEN {g0} ELSE {}) |->
               IF h = g0 THEN [weight |-> groups[g0].weight - weights[old.key], votes |-> votes]
               ELSE groups[h]]
      BY DEF remove
<1>3. \A h : h # g0 => inGroup(D, h) = inGroup(C, h)
      BY DEF inGroup
<1>4. DOMAIN new = {group(v) : v \in D}
  <2>1. DOMAIN new = DOMAIN groups \ (IF votes = {} THEN {g0} ELSE {})
        BY <1>2
  <2>2. ASSUME NEW h \in DOMAIN new PROVE h \in {group(v) : v \in D}
    <3>1. CASE h = g0
      <4>1. votes # {}
            BY <2>1, <3>1
      <4> QED BY <1>1, <3>1, <4>1 DEF inGroup
    <3>2. CASE h # g0
          BY <2>1, <3>2 DEF Match
    <3> QED BY <3>1, <3>2
  <2>3. ASSUME NEW v \in D PROVE group(v) \in DOMAIN new
    <3>1. group(v) \in DOMAIN groups
          BY DEF Match
    <3>2. group(v) = g0 => votes # {}
          BY <1>1 DEF inGroup
    <3> QED BY <2>1, <3>1, <3>2
  <2> HIDE DEF new
  <2> QED BY <2>2, <2>3
<1>5. ASSUME NEW h \in DOMAIN new, h # g0
      PROVE  new[h].votes = inGroup(D, h) /\ new[h].weight = sum(weights, voters(new[h].votes))
      BY <1>2, <1>3, <1>5 DEF Match
<1>6. ASSUME g0 \in DOMAIN new
      PROVE  new[g0].votes = inGroup(D, g0) /\ new[g0].weight = sum(weights, voters(new[g0].votes))
  <2>1. new[g0].votes = votes /\ new[g0].weight = groups[g0].weight - weights[old.key]
        BY <1>2, <1>6
  <2>2. voters(votes) = voters(all) \ {old.key} /\ old.key \in voters(all)
    <3>1. \A v \in all : v.key = old.key => v = old
          BY <1>1 DEF OneEach, inGroup
    <3> QED BY <1>1, <3>1 DEF voters
  <2>3. all \subseteq C /\ votes \subseteq C
        BY <1>1 DEF inGroup
  <2>4. /\ Summable(weights, voters(all))
        /\ sum(weights, voters(votes)) \in Nat
    <3> HIDE DEF all, votes
    <3> QED BY <2>3, VotersWeigh
  <2>5. sum(weights, voters(all)) = weights[old.key] + sum(weights, voters(all) \ {old.key})
    <3> HIDE DEF all, votes
    <3> QED BY ONLY <2>2, <2>4, SumRemove
  <2>6. sum(weights, voters(all) \ {old.key}) = sum(weights, voters(votes))
        BY <2>2
  <2>7. groups[g0].weight = sum(weights, voters(all)) /\ weights[old.key] \in Nat
        BY <1>1, <2>2, <2>4 DEF Match, Summable
  <2>8. groups[g0].weight - weights[old.key] = sum(weights, voters(votes))
    <3> HIDE DEF all, votes
    <3> QED BY <2>4, <2>5, <2>6, <2>7
  <2> QED BY <1>1, <2>1, <2>8
<1> HIDE DEF new, g0, D
<1>7. Match(D, new)
      BY <1>4, <1>5, <1>6 DEF Match
<1> QED BY <1>7 DEF new, g0, D

\* ... and so does inserting one of a replica that has none.
LEMMA MatchInsert ==
    ASSUME Summable(weights, replicas), NEW C, OneEach(C), NEW groups, Match(C, groups),
           NEW vote \in Votes, vote.key \in replicas, vote.key \notin voters(C)
    PROVE  Match(C \cup {vote}, insert(groups, group(vote), vote)) /\ OneEach(C \cup {vote})
<1> DEFINE D == C \cup {vote}
           g0 == group(vote)
           old == IF g0 \in DOMAIN groups THEN groups[g0] ELSE [weight |-> 0, votes |-> {}]
           votes == old.votes \cup {vote}
           new == insert(groups, g0, vote)
<1>1. OneEach(D)
      BY DEF OneEach, voters
<1>2. new = [h \in DOMAIN groups \cup {g0} |->
               IF h = g0 THEN [weight |-> old.weight + weights[vote.key], votes |-> votes]
               ELSE groups[h]]
      BY DEF insert
<1>3. old.votes = inGroup(C, g0) /\ old.weight = sum(weights, voters(old.votes))
  <2>1. CASE g0 \in DOMAIN groups
        BY <2>1 DEF Match
  <2>2. CASE g0 \notin DOMAIN groups
    <3>1. inGroup(C, g0) = {}
          BY <2>2 DEF Match, inGroup
    <3>2. voters({}) = {}
          BY DEF voters
    <3> QED BY <2>2, <3>1, <3>2, SumEmpty
  <2> QED BY <2>1, <2>2
<1> HIDE DEF old
<1>4. votes = inGroup(D, g0) /\ \A h : h # g0 => inGroup(D, h) = inGroup(C, h)
      BY <1>3 DEF inGroup
<1>5. DOMAIN new = {group(v) : v \in D}
      BY <1>2 DEF Match
<1>6. ASSUME NEW h \in DOMAIN new, h # g0
      PROVE  new[h].votes = inGroup(D, h) /\ new[h].weight = sum(weights, voters(new[h].votes))
      BY <1>2, <1>4, <1>6 DEF Match
<1>7. new[g0].votes = inGroup(D, g0) /\ new[g0].weight = sum(weights, voters(new[g0].votes))
  <2>1. new[g0].votes = votes /\ new[g0].weight = old.weight + weights[vote.key]
        BY <1>2
  <2>2. voters(votes) \ {vote.key} = voters(old.votes) /\ vote.key \in voters(votes)
    <3>1. \A v \in old.votes : v.key # vote.key
          BY <1>3 DEF voters, inGroup
    <3> QED BY <3>1 DEF voters
  <2>3. old.votes \subseteq C /\ votes \subseteq D
        BY <1>3 DEF inGroup
  <2>4. /\ Summable(weights, voters(votes))
        /\ sum(weights, voters(old.votes)) \in Nat
    <3> HIDE DEF votes, D
    <3> QED BY <1>1, <2>3, VotersWeigh
  <2>5. sum(weights, voters(votes)) = weights[vote.key] + sum(weights, voters(votes) \ {vote.key})
    <3> HIDE DEF votes
    <3> QED BY ONLY <2>2, <2>4, SumRemove
  <2>6. sum(weights, voters(votes) \ {vote.key}) = sum(weights, voters(old.votes))
        BY <2>2
  <2>7. weights[vote.key] \in Nat
        BY <2>2, <2>4 DEF Summable
  <2>8. old.weight + weights[vote.key] = sum(weights, voters(votes))
    <3> HIDE DEF votes
    <3> QED BY <1>3, <2>4, <2>5, <2>6, <2>7
  <2> QED BY <1>4, <2>1, <2>8
<1> HIDE DEF new, g0, D
<1>8. Match(D, new)
      BY <1>5, <1>6, <1>7 DEF Match
<1> QED BY <1>1, <1>8 DEF new, g0, D

\* The votes kept are those of replicas, one each; nothing is collected before
\* there is a committee.
VotesInv ==
    /\ LoopInv
    /\ groupBy \in {"hash", "view"}
    /\ byKey \in [Keys -> Votes \cup {None}]
    /\ \A k \in Keys : byKey[k] # None => byKey[k].key = k /\ k \in replicas
    /\ result # "committee" => qc = {} /\ \A k \in Keys : byKey[k] = None
    /\ qc \subseteq Votes
    /\ GroupsMatchVotes
    /\ QCVerifies
    /\ NoMissedQC

\* The groups of GroupsMatchVotes are Match of the votes kept.
LEMMA GroupsAreMatch == GroupsMatchVotes <=> Match(current, byGroup)
BY DEF GroupsMatchVotes, Match, inGroup, voters

\* The newest votes are one for each replica.
LEMMA CurrentOneEach ==
    ASSUME VotesInv
    PROVE  OneEach(current) /\ \A v : v \in current <=> v \in Votes /\ byKey[v.key] = v
<1>1. ASSUME NEW v \in current PROVE v \in Votes /\ v.key \in replicas /\ byKey[v.key] = v
      BY VoteSetsAssumption DEF VotesInv, current
<1>2. ASSUME NEW v \in Votes, byKey[v.key] = v PROVE v \in current
  <2>1. v.key \in Keys /\ v # None
        BY VoteSetsAssumption DEF Votes
  <2> QED BY <1>2, <2>1 DEF current
<1> QED BY <1>1, <1>2 DEF OneEach

\* The first component of a group is the view of its votes.
LEMMA GroupView ==
    ASSUME NEW v, groupBy \in {"hash", "view"} PROVE group(v)[1] = v.view
BY DEF group

\* Collectors start empty.
LEMMA VotesInit == Init => VotesInv
<1> SUFFICES ASSUME Init PROVE VotesInv
    OBVIOUS
<1>1. LoopInv /\ result # "committee"
      BY LoopInit DEF Init, CommitteeInit
<1>2. current = {} /\ DOMAIN byGroup = {} /\ qc = {}
      BY DEF Init, current
<1>3. GroupsMatchVotes /\ QCVerifies /\ NoMissedQC
      BY <1>2 DEF GroupsMatchVotes, QCVerifies, NoMissedQC
<1> QED BY <1>1, <1>2, <1>3 DEF Init, VotesInv

\* Before there is a committee the collectors are empty and stay so.
LEMMA VotesNewCommittee ==
    ASSUME VotesInv, NewCommittee, UNCHANGED votesVars
    PROVE  VotesInv'
<1>1. LoopInv'
      BY LoopVisit, LoopFinish DEF VotesInv, NewCommittee
<1>2. result # "committee"
      BY DEF NewCommittee, visit, finish
<1>3. /\ qc' = {} /\ groupBy' = groupBy /\ byGroup' = byGroup /\ byKey' = byKey
      /\ \A k \in Keys : byKey'[k] = None
      BY <1>2 DEF VotesInv, votesVars
<1>4. current = {} /\ current' = {}
      BY <1>2, <1>3 DEF VotesInv, current
<1>5. DOMAIN byGroup' = {}
      BY <1>3, <1>4 DEF VotesInv, GroupsMatchVotes
<1>6. GroupsMatchVotes' /\ QCVerifies' /\ NoMissedQC'
      BY <1>3, <1>4, <1>5 DEF GroupsMatchVotes, QCVerifies, NoMissedQC
<1> QED BY <1>1, <1>3, <1>6 DEF VotesInv

\* pushVote keeps the collectors' invariant.
LEMMA VotesPush ==
    ASSUME VotesInv, NEW vote \in Votes, pushVote(vote)
    PROVE  VotesInv'
<1> DEFINE k == vote.key
           old == byKey[k]
           kept == IF old = None THEN byGroup ELSE remove(byGroup, group(old), old)
           groups == insert(kept, group(vote), vote)
           C == IF old = None THEN current ELSE current \ {old}
           set == groups[group(vote)]
<1>1. /\ result = "committee" /\ k \in replicas /\ k \in Keys /\ supersedes(old, vote)
      /\ byKey' = [byKey EXCEPT ![k] = vote]
      /\ byGroup' = groups
      /\ qc' = certify(set.votes, set.weight, vote.view)
      /\ groupBy' = groupBy
      /\ UNCHANGED committeeVars
      BY DEF pushVote, Votes
<1>2. LoopInv' /\ weights' = weights /\ replicas' = replicas /\ result' = result
      /\ CommitQuorum' = CommitQuorum
      BY <1>1 DEF VotesInv, LoopInv, committeeVars, replicas, Positive, Fits,
                  CommitQuorum, Faulty
<1>3. \A v : group(v)' = group(v)
      BY <1>1 DEF group
<1>4. Summable(weights, replicas) /\ (Summable(weights, replicas)' <=> Summable(weights, replicas))
      BY <1>1, <1>2, CommitteeFacts DEF VotesInv, Summable
<1>5. OneEach(current) /\ \A v : v \in current <=> v \in Votes /\ byKey[v.key] = v
      BY CurrentOneEach
<1>6. old # None => old \in current /\ old.key = k
      BY <1>1, <1>5 DEF VotesInv
<1>7. Match(C, kept) /\ OneEach(C) /\ k \notin voters(C)
  <2>1. CASE old = None
    <3>1. k \notin voters(current)
          BY <1>5, <2>1, VoteSetsAssumption DEF voters
    <3> QED BY <1>5, <2>1, <3>1, GroupsAreMatch DEF VotesInv
  <2>2. CASE old # None
    <3>1. Match(current \ {old}, remove(byGroup, group(old), old))
      <4>1. Match(current, byGroup)
            BY GroupsAreMatch DEF VotesInv
      <4> QED BY <1>4, <1>5, <1>6, <2>2, <4>1, MatchRemove
    <3>2. OneEach(current \ {old}) /\ k \notin voters(current \ {old})
          BY <1>5, <1>6, <2>2 DEF OneEach, voters
    <3> QED BY <2>2, <3>1, <3>2
  <2> QED BY <2>1, <2>2
<1> HIDE DEF C, kept
<1>8. Match(C \cup {vote}, groups) /\ OneEach(C \cup {vote})
      BY <1>1, <1>4, <1>7, MatchInsert
<1>9. current' = C \cup {vote}
  <2>1. ASSUME NEW v \in current' PROVE v \in C \cup {vote}
    <3>1. PICK j \in Keys : v = byKey'[j] /\ v # None
          BY DEF current
    <3>2. CASE j = k
          BY <1>1, <3>1, <3>2 DEF VotesInv
    <3>3. CASE j # k
      <4>1. v = byKey[j] /\ v.key = j /\ v \in current
            BY <1>1, <3>1, <3>3 DEF VotesInv, current
      <4> QED BY <1>6, <3>3, <4>1 DEF C
    <3> QED BY <3>2, <3>3
  <2>2. ASSUME NEW v \in C PROVE v \in current'
    <3>1. v \in current /\ v.key # k
          BY <1>7 DEF C, voters
    <3>2. v \in Votes /\ v.key \in Keys /\ byKey[v.key] = v
          BY <1>5, <3>1 DEF Votes
    <3>3. byKey'[v.key] = v /\ v # None
          BY <1>1, <3>1, <3>2, VoteSetsAssumption DEF VotesInv
    <3> QED BY <3>2, <3>3 DEF current
  <2>3. vote \in current'
    <3>1. byKey'[k] = vote /\ vote # None
          BY <1>1, VoteSetsAssumption DEF VotesInv
    <3> QED BY <1>1, <3>1 DEF current
  <2> QED BY <2>1, <2>2, <2>3
<1> HIDE DEF groups
<1>10. Match(current', byGroup')
       BY <1>1, <1>8, <1>9
<1>11. GroupsMatchVotes'
       BY <1>1, <1>2, <1>3, <1>10 DEF GroupsMatchVotes, Match, inGroup, voters
<1>12. OneEach(current')
       BY <1>8, <1>9
<1> DEFINE g0 == group(vote)
<1>13. /\ g0 \in DOMAIN groups /\ set.votes = inGroup(current', g0) /\ vote \in set.votes
       /\ set.weight = sum(weights, voters(set.votes)) /\ set.votes \subseteq Votes
  <2>1. vote \in current' /\ g0 \in DOMAIN groups
        BY <1>1, <1>9, <1>10 DEF Match
  <2> QED BY <1>1, <1>10, <1>12, <2>1 DEF Match, inGroup, OneEach
<1>14. \A v \in set.votes : v.view = vote.view
  <2>1. \A v : group(v)[1] = v.view
        BY GroupView DEF VotesInv
  <2> QED BY <1>13, <2>1 DEF inGroup
<1>15. ASSUME NEW V, V # {}, \A v \in V : v.view = vote.view PROVE viewOf(V) = vote.view
       BY <1>15 DEF viewOf
<1> DEFINE keep == set.weight < CommitQuorum \/ (qc # {} /\ viewOf(qc) >= vote.view)
<1>16. qc' = IF keep THEN qc ELSE set.votes
       BY <1>1 DEF certify
<1>17. qc' \subseteq Votes
       BY <1>13, <1>16 DEF VotesInv
<1>18. QCVerifies'
  <2>1. CASE keep
        BY <1>2, <1>16, <2>1 DEF VotesInv, QCVerifies
  <2>2. CASE ~keep
    <3>1. \A v, w \in set.votes : v.view = w.view /\ (v.key = w.key => v = w)
          BY <1>12, <1>13, <1>14 DEF OneEach, inGroup
    <3>2. sum(weights, voters(set.votes)) >= CommitQuorum
      <4>1. sum(weights, voters(set.votes)) \in Nat
        <5>1. set.votes \subseteq current'
              BY <1>13 DEF inGroup
        <5> HIDE DEF set
        <5> QED BY <1>4, <1>12, <5>1, VotersWeigh
      <4>2. CommitQuorum \in Int
            BY <1>1, CommitteeFacts DEF VotesInv, CommitQuorum, Faulty
      <4> QED BY <1>13, <2>2, <4>1, <4>2
    <3> QED BY <1>2, <1>16, <2>2, <3>1, <3>2 DEF QCVerifies, voters
  <2> QED BY <2>1, <2>2
<1>19. NoMissedQC'
  <2> SUFFICES ASSUME NEW g \in DOMAIN byGroup', byGroup'[g].weight >= CommitQuorum
               PROVE  qc' # {} /\ viewOf(qc') >= g[1]
      BY <1>2 DEF NoMissedQC, viewOf
  <2>1. CommitQuorum \in Int /\ vote.view \in Nat
        BY <1>1, CommitteeFacts DEF VotesInv, CommitQuorum, Faulty, Votes
  <2>2. \A V \in SUBSET current : sum(weights, voters(V)) \in Nat
        BY <1>4, <1>5, VotersWeigh
  <2>3. \A V \in SUBSET current' : sum(weights, voters(V)) \in Nat
        BY <1>4, <1>12, VotersWeigh
  <2>4. PICK v \in current' : group(v) = g
        BY <1>10 DEF Match
  <2>5. g[1] = v.view /\ v.view \in Nat
        BY <1>12, <2>4, GroupView DEF VotesInv, OneEach, Votes
  <2>6. qc # {} => viewOf(qc) \in Nat
        BY DEF viewOf, VotesInv, Votes
  <2>7. set.votes # {} /\ viewOf(set.votes) = vote.view
        BY <1>13, <1>14, <1>15
  <2>8. CASE g = g0
    <3>1. set.weight >= CommitQuorum /\ set.weight \in Nat
      <4>1. set.votes \in SUBSET current'
            BY <1>13 DEF inGroup
      <4> QED BY <1>1, <1>13, <2>3, <2>8, <4>1
    <3>2. g[1] = vote.view
          BY <2>8, GroupView DEF VotesInv
    <3>3. CASE keep
      <4>1. qc' = qc /\ qc # {} /\ viewOf(qc) >= vote.view
            BY <1>16, <2>1, <3>1, <3>3
      <4> QED BY <3>2, <4>1
    <3>4. CASE ~keep
          BY <1>16, <2>1, <2>7, <3>2, <3>4
    <3> QED BY <3>3, <3>4
  <2>9. CASE g # g0
    <3>1. v \in current
          BY <1>9, <2>4, <2>9 DEF C
    <3>2. g \in DOMAIN byGroup /\ byGroup[g].votes = inGroup(current, g)
          /\ byGroup[g].weight = sum(weights, voters(inGroup(current, g)))
          BY <2>4, <3>1, GroupsAreMatch DEF VotesInv, Match
    <3>3. byGroup'[g].weight = sum(weights, voters(inGroup(current', g)))
          BY <1>10 DEF Match
    <3>4. /\ inGroup(current', g) \subseteq inGroup(current, g)
          /\ inGroup(current, g) \subseteq current
          BY <1>9, <2>9 DEF C, inGroup
    <3>5. /\ sum(weights, voters(inGroup(current', g))) \in Nat
          /\ sum(weights, voters(inGroup(current, g))) \in Nat
          /\ sum(weights, voters(inGroup(current', g)))
                <= sum(weights, voters(inGroup(current, g)))
          BY <1>4, <1>5, <3>4, VotersShrink
    <3>7. byGroup[g].weight >= CommitQuorum
          BY <2>1, <3>2, <3>3, <3>5
    <3>8. qc # {} /\ viewOf(qc) >= g[1]
          BY <3>2, <3>7 DEF VotesInv, NoMissedQC
    <3>9. CASE keep
          BY <1>16, <3>8, <3>9
    <3>10. CASE ~keep
      <4>1. viewOf(qc) < vote.view
            BY <2>1, <2>6, <3>8, <3>10
      <4> QED BY <1>16, <2>1, <2>5, <2>6, <2>7, <3>8, <3>10, <4>1
    <3> QED BY <3>9, <3>10
  <2> QED BY <2>8, <2>9
<1>20. /\ byKey' \in [Keys -> Votes \cup {None}]
       /\ \A j \in Keys : byKey'[j] # None => byKey'[j].key = j /\ j \in replicas'
       BY <1>1, <1>2 DEF VotesInv
<1> QED BY <1>1, <1>2, <1>11, <1>17, <1>18, <1>19, <1>20 DEF VotesInv

\* Every step keeps the collectors' invariant ...
LEMMA VotesStep == VotesInv /\ [Next]_vars => VotesInv'
<1> SUFFICES ASSUME VotesInv, [Next]_vars PROVE VotesInv'
    OBVIOUS
<1>1. CASE NewCommittee /\ UNCHANGED votesVars
      BY <1>1, VotesNewCommittee
<1>2. CASE \E vote \in Votes : pushVote(vote)
      BY <1>2, VotesPush
<1>3. CASE UNCHANGED vars
  <2>1. UNCHANGED <<argument, toVisit, weights, totalWeight, result, groupBy, byKey, byGroup, qc>>
        BY <1>3 DEF vars, committeeVars, votesVars
  <2>2. LoopInv'
        BY <2>1 DEF VotesInv, LoopInv, Positive, Fits
  <2>3. current' = current /\ CommitQuorum' = CommitQuorum
        BY <2>1 DEF current, CommitQuorum, Faulty
  <2>4. \A v : group(v)' = group(v)
        BY <2>1 DEF group
  <2>5. GroupsMatchVotes'
        BY <2>1, <2>3, <2>4 DEF VotesInv, GroupsMatchVotes
  <2>6. QCVerifies'
        BY <2>1, <2>3 DEF VotesInv, QCVerifies
  <2>7. NoMissedQC'
        BY <2>1, <2>3 DEF VotesInv, NoMissedQC, viewOf
  <2> QED BY <2>1, <2>2, <2>5, <2>6, <2>7 DEF VotesInv, replicas
<1> QED BY <1>1, <1>2, <1>3 DEF Next

\* ... which therefore always holds.
LEMMA VotesAlways == Spec => []VotesInv
BY VotesInit, VotesStep, PTL DEF Spec

\* NewCommittee returns a committee exactly when its weights have a positive
\* sum that fits, and few enough of them are positive; for any map, visited in
\* any order, and any width of the integer.
THEOREM CommitteeAccepted == Spec => []AcceptedIffFits
<1>1. VotesInv => AcceptedIffFits
      BY LoopAccepts DEF VotesInv
<1> QED BY <1>1, VotesAlways, PTL

\* Two quorums of any committee that NewCommittee returns overlap in more than
\* the weight that may be faulty; the correct replicas form quorums.
THEOREM QuorumsOverlap == Spec => []QuorumsShareHonest
<1>1. VotesInv => QuorumsShareHonest
      BY LoopQuorums DEF VotesInv
<1> QED BY <1>1, VotesAlways, PTL

\* What consensus assumes of its quorums (QuorumAssumption of AutobahnVoting)
\* holds of every committee: whichever replicas of weight at most Faulty are
\* faulty, any two commit quorums share a replica that is not.
commitQuorums == {Q \in SUBSET replicas : sum(weights, Q) >= CommitQuorum}

QuorumsMeetInHonest ==
    result = "committee" =>
        \A F \in SUBSET replicas :
            sum(weights, F) <= Faulty =>
                \A Q1, Q2 \in commitQuorums : (Q1 \cap Q2) \ F # {}

\* The sum of the overlap exceeds that of the faulty replicas, so it is no part
\* of them.
THEOREM ConsensusQuorums == Spec => []QuorumsMeetInHonest
<1>1. VotesInv => QuorumsMeetInHonest
  <2> SUFFICES ASSUME VotesInv, result = "committee", NEW F \in SUBSET replicas,
                      sum(weights, F) <= Faulty,
                      NEW Q1 \in commitQuorums, NEW Q2 \in commitQuorums,
                      (Q1 \cap Q2) \ F = {}
               PROVE  FALSE
      BY DEF QuorumsMeetInHonest
  <2> DEFINE I == Q1 \cap Q2
  <2>1. sum(weights, I) > Faulty
        BY LoopQuorums DEF VotesInv, QuorumsShareHonest, commitQuorums
  <2>2. I \in SUBSET F
        OBVIOUS
  <2>3. Summable(weights, replicas) /\ totalWeight \in Nat \ {0}
        BY CommitteeFacts DEF VotesInv, Summable
  <2> HIDE DEF I
  <2>4. Summable(weights, F) /\ Summable(weights, I)
        BY <2>2, <2>3, SummableSubset
  <2>5. sum(weights, I) \in Nat /\ sum(weights, F) \in Nat
        BY <2>4, SumType
  <2>6. sum(weights, I) <= sum(weights, F)
        BY <2>2, <2>4, SumSmaller
  <2>7. Faulty \in Int
        BY <2>3 DEF Faulty
  <2> QED BY <2>1, <2>5, <2>6, <2>7
<1> QED BY <1>1, VotesAlways, PTL

\* randomReplica leads to each replica of any committee with exactly its
\* weight out of totalWeight.
THEOREM LeadersProportional == Spec => []LeadersByWeight
<1>1. VotesInv => LeadersByWeight
      BY LoopLeaders DEF VotesInv
<1> QED BY <1>1, VotesAlways, PTL

\* The incremental groups and weights of the collectors are those of the
\* newest votes, in whatever order votes come and replace each other.
THEOREM CollectorsExact == Spec => []GroupsMatchVotes
<1>1. VotesInv => GroupsMatchVotes
      BY DEF VotesInv
<1> QED BY <1>1, VotesAlways, PTL

\* Every certificate published verifies.
THEOREM CertificatesVerify == Spec => []QCVerifies
<1>1. VotesInv => QCVerifies
      BY DEF VotesInv
<1> QED BY <1>1, VotesAlways, PTL

\* No quorum of newest votes goes without a certificate at least as new.
THEOREM NoCertificateMissed == Spec => []NoMissedQC
<1>1. VotesInv => NoMissedQC
      BY DEF VotesInv
<1> QED BY <1>1, VotesAlways, PTL
=============================================================================
