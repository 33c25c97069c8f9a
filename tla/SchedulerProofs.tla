-------------------------- MODULE SchedulerProofs ---------------------------
(***************************************************************************)
(* Proof that the optimistic scheduler implements serial execution.  A     *)
(* validated task has read what the lower tasks have left in the           *)
(* multi-version store, as long as all of them are clean, so that with     *)
(* every task validated the tasks are one serial execution after another.  *)
(***************************************************************************)
EXTENDS SchedulerRounds, FiniteSetTheorems, WellFoundedInduction

-----------------------------------------------------------------------------
(***************************************************************************)
(* Induction over numbers, by a least counterexample, and recursion over   *)
(* an interval.                                                            *)
(***************************************************************************)
\* A non-empty set of natural numbers has a least element.
LEMMA LeastNumber ==
    ASSUME NEW T, T \subseteq Nat, T # {}
    PROVE  \E x \in T : \A y \in T : x <= y
<1>1. PICK x \in T : \A y \in T : ~(<<y, x>> \in OpToRel(<, Nat))
      BY NatLessThanWellFounded, WFMin
<1>2. \A y \in T : <<y, x>> \in Nat \X Nat
      BY <1>1
<1>3. \A y \in T : ~(y < x)
      BY <1>1, <1>2 DEF OpToRel
<1> QED BY <1>3

\* The least element of a set of numbers.
LEMMA LeastMin ==
    ASSUME NEW S, S \subseteq Nat, S # {}
    PROVE  Min(S) \in S /\ \A y \in S : Min(S) <= y
<1>1. \E x \in S : \A y \in S : x <= y
      BY LeastNumber
<1> QED BY <1>1 DEF Min

isChain(op, base, m, x) == x[0] = base /\ \A i \in 1..m : x[i] = op[i][x[i - 1]]

\* A step for every number of an interval makes a sequence of values.
LEMMA ChainExists ==
    ASSUME NEW L \in Nat, NEW X, NEW base \in X, NEW op \in [1..L -> [X -> X]]
    PROVE  \E x \in [0..L -> X] : isChain(op, base, L, x)
<1> DEFINE bad == {m \in 0..L : ~\E x \in [0..m -> X] : isChain(op, base, m, x)}
<1> SUFFICES ASSUME bad # {} PROVE FALSE
    OBVIOUS
<1>1. bad \subseteq Nat
      OBVIOUS
<1>2. PICK m \in bad : \A i \in bad : m <= i
  <2> HIDE DEF bad
  <2> QED BY <1>1, LeastNumber
<1>3. CASE m = 0
  <2> DEFINE x == [i \in 0..m |-> base]
  <2>1. x \in [0..m -> X] /\ isChain(op, base, m, x)
        BY <1>3 DEF isChain
  <2> QED BY <2>1
<1>4. CASE m # 0
  <2>1. m \in 1..L /\ m - 1 \in 0..L /\ m - 1 \notin bad
        BY <1>2, <1>4
  <2>2. PICK x \in [0..(m - 1) -> X] : isChain(op, base, m - 1, x)
        BY <2>1
  <2> DEFINE y == [i \in 0..m |-> IF i = m THEN op[m][x[m - 1]] ELSE x[i]]
  <2>3. x[m - 1] \in X /\ op[m] \in [X -> X]
        BY <2>1
  <2>4. op[m][x[m - 1]] \in X
        BY <2>3
  <2>5. \A i \in 0..m : i # m => i \in 0..(m - 1)
        BY <2>1
  <2>6. y \in [0..m -> X]
        BY <2>4, <2>5
  <2>7. y[0] = base
        BY <2>1, <2>2 DEF isChain
  <2>8. ASSUME NEW i \in 1..m PROVE y[i] = op[i][y[i - 1]]
    <3>1. i \in 0..m /\ i - 1 \in 0..m /\ i - 1 # m
          BY <2>1
    <3>2. y[i - 1] = x[i - 1]
          BY <3>1
    <3>3. CASE i = m
          BY <3>1, <3>2, <3>3
    <3>4. CASE i # m
      <4>1. i \in 1..(m - 1)
            BY <2>1, <3>4
      <4> QED BY <2>2, <3>1, <3>2, <3>4, <4>1 DEF isChain
    <3> QED BY <3>3, <3>4
  <2>9. isChain(op, base, m, y)
        BY <2>7, <2>8 DEF isChain
  <2> QED BY <2>6, <2>9
<1> QED BY <1>3, <1>4

-----------------------------------------------------------------------------
(***************************************************************************)
(* Serial execution, access by access and transaction by transaction.      *)
(***************************************************************************)
\* deliverTx is the last state of a run.
LEMMA RunsExist ==
    ASSUME NEW s \in Contents, NEW tx \in Transactions
    PROVE  isRun(s, tx, run(s, tx))
<1> DEFINE L == Len(tx)
           base == [store |-> s, read |-> Serial!nothingRead]
           op == [m \in 1..L |-> [x \in States |-> Serial!access(x, tx[m])]]
           rec(h) == h = [m \in 0..L |-> IF m = 0 THEN base
                                         ELSE Serial!access(h[m - 1], tx[m])]
           G == CHOOSE h : rec(h)
<1>1. L \in Nat /\ \A m \in 1..L : tx[m] \in Serial!Instructions
      BY DEF Transactions
<1>2. base \in States
      BY DEF States, Contents, Serial!nothingRead
<1>3. op \in [1..L -> [States -> States]]
      BY <1>1, AccessType
<1>4. PICK x \in [0..L -> States] : isChain(op, base, L, x)
  <2> HIDE DEF op, base
  <2> QED BY <1>1, <1>2, <1>3, ChainExists
<1>5. rec(x)
  <2>1. ASSUME NEW m \in 0..L
        PROVE  x[m] = IF m = 0 THEN base ELSE Serial!access(x[m - 1], tx[m])
    <3>1. CASE m = 0
          BY <1>4, <3>1 DEF isChain
    <3>2. CASE m # 0
      <4>1. m \in 1..L /\ x[m - 1] \in States
            BY <1>1, <3>2
      <4> QED BY <1>4, <3>2, <4>1 DEF isChain
    <3> QED BY <3>1, <3>2
  <2> QED BY <2>1
<1>6. rec(G)
  <2> HIDE DEF rec
  <2> QED BY <1>5
<1>7. Serial!deliverTx(s, tx) = G[L]
      BY DEF Serial!deliverTx
<1> HIDE DEF G
<1>8. DOMAIN G = 0..L /\ G = [m \in 0..L |-> G[m]] /\ G[0] = base
      BY <1>1, <1>6
<1>9. \A m \in 1..L : G[m] = Serial!access(G[m - 1], tx[m])
      BY <1>1, <1>6
<1> HIDE DEF rec
<1> DEFINE bad == {m \in 0..L : G[m] \notin States}
<1>10. bad = {}
  <2> SUFFICES ASSUME bad # {} PROVE FALSE
      OBVIOUS
  <2>1. bad \subseteq Nat
        BY <1>1
  <2>2. PICK m \in bad : \A i \in bad : m <= i
    <3> HIDE DEF bad
    <3> QED BY <2>1, LeastNumber
  <2>3. m \in 1..L /\ m - 1 \in 0..L /\ m - 1 \notin bad
        BY <1>1, <1>2, <1>8, <2>2
  <2>4. G[m - 1] \in States
        BY <2>3
  <2> QED BY <1>1, <1>9, <2>2, <2>3, <2>4, AccessType
<1>11. G \in [0..L -> States]
       BY <1>8, <1>10
<1>12. isRun(s, tx, G)
       BY <1>7, <1>8, <1>9, <1>11 DEF isRun
<1> QED BY <1>12 DEF run

\* The states of a serial execution of txs on s: y[m] is that after m transactions.
Outcomes == [store : Contents, responses : Seq(Contents)]

isSerial(s, txs, y) ==
    /\ y \in [0..Len(txs) -> Outcomes]
    /\ y[0] = [store |-> s, responses |-> <<>>]
    /\ \A m \in 1..Len(txs) : y[m] = Serial!deliver(y[m - 1], txs[m])
    /\ y[Len(txs)] = Serial!serial(s, txs)

\* A transaction leaves contents and a response.
LEMMA DeliverType ==
    ASSUME NEW s \in Contents, NEW tx \in Transactions
    PROVE  Serial!deliverTx(s, tx) \in States
<1> DEFINE x == run(s, tx)
<1>1. Len(tx) \in 0..Len(tx)
      BY DEF Transactions
<1>2. isRun(s, tx, x)
      BY RunsExist
<1> HIDE DEF x
<1>3. x[Len(tx)] \in States /\ x[Len(tx)] = Serial!deliverTx(s, tx)
      BY <1>1, <1>2 DEF isRun
<1> QED BY <1>3

\* serial is the last outcome.
LEMMA SerialExists ==
    ASSUME NEW s \in Contents, NEW txs \in Seq(Transactions)
    PROVE  \E y : isSerial(s, txs, y)
<1> DEFINE L == Len(txs)
           base == [store |-> s, responses |-> <<>>]
           op == [m \in 1..L |-> [y \in Outcomes |-> Serial!deliver(y, txs[m])]]
           rec(h) == h = [m \in 0..L |-> IF m = 0 THEN base
                                         ELSE Serial!deliver(h[m - 1], txs[m])]
           G == CHOOSE h : rec(h)
<1>1. L \in Nat /\ \A m \in 1..L : txs[m] \in Transactions
      OBVIOUS
<1>2. base \in Outcomes
      BY DEF Outcomes
<1>3. \A y \in Outcomes, tx \in Transactions : Serial!deliver(y, tx) \in Outcomes
      BY DeliverType DEF Serial!deliver, Outcomes, States
<1>4. op \in [1..L -> [Outcomes -> Outcomes]]
      BY <1>1, <1>3
<1>5. PICK y \in [0..L -> Outcomes] : isChain(op, base, L, y)
  <2> HIDE DEF op, base
  <2> QED BY <1>1, <1>2, <1>4, ChainExists
<1>6. rec(y)
  <2>1. ASSUME NEW m \in 0..L
        PROVE  y[m] = IF m = 0 THEN base ELSE Serial!deliver(y[m - 1], txs[m])
    <3>1. CASE m = 0
          BY <1>5, <3>1 DEF isChain
    <3>2. CASE m # 0
      <4>1. m \in 1..L /\ y[m - 1] \in Outcomes
            BY <1>1, <3>2
      <4> QED BY <1>5, <3>2, <4>1 DEF isChain
    <3> QED BY <3>1, <3>2
  <2> QED BY <2>1
<1>7. rec(G)
  <2> HIDE DEF rec
  <2> QED BY <1>6
<1>8. Serial!serial(s, txs) = G[L]
      BY DEF Serial!serial
<1> HIDE DEF G
<1>9. DOMAIN G = 0..L /\ G = [m \in 0..L |-> G[m]] /\ G[0] = base
      BY <1>1, <1>7
<1>10. \A m \in 1..L : G[m] = Serial!deliver(G[m - 1], txs[m])
       BY <1>1, <1>7
<1> HIDE DEF rec
<1> DEFINE bad == {m \in 0..L : G[m] \notin Outcomes}
<1>11. bad = {}
  <2> SUFFICES ASSUME bad # {} PROVE FALSE
      OBVIOUS
  <2>1. bad \subseteq Nat
        BY <1>1
  <2>2. PICK m \in bad : \A i \in bad : m <= i
    <3> HIDE DEF bad
    <3> QED BY <2>1, LeastNumber
  <2>3. m \in 1..L /\ m - 1 \in 0..L /\ m - 1 \notin bad
        BY <1>1, <1>2, <1>9, <2>2
  <2>4. G[m - 1] \in Outcomes
        BY <2>3
  <2> QED BY <1>1, <1>3, <1>10, <2>2, <2>3, <2>4
<1>12. G \in [0..L -> Outcomes]
       BY <1>9, <1>11
<1>13. isSerial(s, txs, G)
       BY <1>8, <1>9, <1>10, <1>12 DEF isSerial
<1> QED BY <1>13

\* Cardinality, too, is that of the library.
LEMMA SerialCardinality ==
    ASSUME NEW S PROVE Serial!Cardinality(S) = Cardinality(S)
BY DEF Serial!Cardinality, Cardinality

\* The keys an iteration serves before its limit, or when it reaches the end,
\* are the first ones.
LEMMA ServedAreFirst ==
    ASSUME NEW z \in Contents, NEW limit \in Nat \ {0}, NEW I \in SUBSET Keys,
           \/ Cardinality(I) < limit /\ I = {k \in Keys : z[k] # 0}
           \/ /\ Cardinality(I) = limit
              /\ \E m \in Nat : I = {k \in Keys : z[k] # 0 /\ k <= m}
    PROVE  Serial!firstKeys(z, limit) = I
<1> DEFINE live == {k \in Keys : z[k] # 0}
           lower(k) == {l \in live : l < k}
<1>1. I \subseteq live /\ IsFiniteSet(live) /\ IsFiniteSet(I)
      BY KeysAssumption, FS_Subset
<1>2. \A k \in Keys : IsFiniteSet(lower(k))
      BY <1>1, FS_Subset
<1>3. Cardinality(I) \in Nat /\ \A k \in Keys : Cardinality(lower(k)) \in Nat
      BY <1>1, <1>2, FS_CardinalityType
<1>4. Serial!firstKeys(z, limit) = {k \in live : Cardinality(lower(k)) < limit}
      BY SerialCardinality DEF Serial!firstKeys
<1>5. ASSUME NEW k \in I PROVE Cardinality(lower(k)) < limit
  <2>1. k \in Nat /\ k \in live /\ k \notin lower(k)
        BY <1>1, KeysAssumption
  <2>2. ASSUME NEW l \in lower(k) PROVE l \in I
    <3>1. l \in Keys /\ l \in Nat /\ z[l] # 0 /\ l < k
          BY KeysAssumption
    <3>2. \A m \in Nat : k <= m => l <= m
          BY <2>1, <3>1
    <3> QED BY <2>1, <3>1, <3>2
  <2>3. lower(k) \subseteq I /\ lower(k) # I
        BY <2>1, <2>2
  <2>4. Cardinality(lower(k)) < Cardinality(I)
    <3> DEFINE A == lower(k)
    <3>1. A \in SUBSET I /\ A # I
          BY <2>3
    <3>2. Cardinality(A) \in Nat
          BY <1>3
    <3> HIDE DEF A
    <3>3. Cardinality(A) <= Cardinality(I) /\ (Cardinality(I) = Cardinality(A) => I = A)
          BY <1>1, <3>1, FS_Subset
    <3>4. Cardinality(A) < Cardinality(I)
          BY <1>3, <3>1, <3>2, <3>3
    <3> QED BY <3>4 DEF A
  <2> QED BY <1>3, <2>4
<1>6. ASSUME NEW k \in live, k \notin I PROVE Cardinality(lower(k)) >= limit
  <2>1. Cardinality(I) = limit /\ \E m \in Nat : I = {x \in Keys : z[x] # 0 /\ x <= m}
        BY <1>6
  <2>2. PICK m \in Nat : I = {x \in Keys : z[x] # 0 /\ x <= m}
        BY <2>1
  <2>3. k > m
        BY <1>6, <2>2, KeysAssumption
  <2>4. ASSUME NEW x \in I PROVE x \in lower(k)
    <3>1. x \in live /\ x \in Nat /\ x <= m /\ k \in Nat
          BY <2>2, KeysAssumption
    <3>2. x < k
          BY <2>3, <3>1
    <3> QED BY <3>1, <3>2
  <2>5. Cardinality(I) <= Cardinality(lower(k))
    <3> DEFINE A == lower(k)
    <3>1. I \in SUBSET A /\ IsFiniteSet(A)
          BY <1>2, <2>4
    <3> HIDE DEF A
    <3>2. Cardinality(I) <= Cardinality(A)
          BY <3>1, FS_Subset
    <3> QED BY <3>2 DEF A
  <2> QED BY <1>3, <2>1, <2>5
<1>7. \A k \in live : k \in I <=> Cardinality(lower(k)) < limit
      BY <1>3, <1>5, <1>6
<1> QED BY <1>1, <1>4, <1>7

-----------------------------------------------------------------------------
(***************************************************************************)
(* The hypotheses of the step lemmas.                                      *)
(***************************************************************************)
\* The item read is the last one before the transaction.
LEMMA LatestFacts ==
    ASSUME StoreTypes, NEW i \in 1..(n + 1), NEW k \in Keys
    PROVE  LET j == GetLatestBeforeIndex(i, k)
           IN  /\ j \in 0..(i - 1)
               /\ j # 0 => mv[j][k] # absent
               /\ \A m \in 1..(i - 1) : m > j => mv[m][k] = absent
<1> DEFINE S == {j \in 1..(i - 1) : mv[j][k] # absent} \cup {0}
           j == GetLatestBeforeIndex(i, k)
<1>1. S \subseteq Nat /\ S # {} /\ S \subseteq 0..(i - 1)
      BY DEF StoreTypes
<1> DEFINE T == {d \in Nat : i - d \in S}
<1>2. T \subseteq Nat /\ T # {}
  <2>1. i \in Nat /\ i - i = 0
        BY DEF StoreTypes
  <2>2. i \in T
        BY <2>1
  <2> QED BY <2>2
<1>3. PICK x \in S : \A y \in S : y <= x
  <2>1. PICK d \in T : \A e \in T : d <= e
    <3> HIDE DEF T
    <3> QED BY <1>2, LeastNumber
  <2> HIDE DEF S
  <2>2. ASSUME NEW y \in S PROVE y <= i - d
    <3>1. i \in Nat /\ y \in 0..(i - 1)
          BY <1>1 DEF StoreTypes
    <3>2. i - y \in Nat /\ i - (i - y) = y
          BY <3>1
    <3>3. i - y \in T
          BY <3>2
    <3>4. d <= i - y /\ d \in Nat
          BY <2>1, <3>3
    <3> QED BY <3>1, <3>4
  <2> QED BY <2>1, <2>2
<1> HIDE DEF T
<1>4. \E x1 \in S : \A y \in S : x1 >= y
      BY <1>1, <1>3
<1>5. j \in S /\ \A y \in S : j >= y
  <2>1. j = CHOOSE x1 \in S : \A y \in S : x1 >= y
        BY DEF GetLatestBeforeIndex, Max
  <2> HIDE DEF S, j
  <2> QED BY <1>4, <2>1
<1> HIDE DEF j
<1>6. j \in 0..(i - 1) /\ (j # 0 => mv[j][k] # absent)
      BY <1>1, <1>5
<1>7. ASSUME NEW m \in 1..(i - 1), m > j PROVE mv[m][k] = absent
  <2>1. m \notin S
        BY <1>1, <1>5, <1>6, <1>7 DEF StoreTypes
  <2> QED BY <2>1
<1> QED BY <1>6, <1>7 DEF j

\* What is read is a number, an estimate is another transaction's.
LEMMA LatestType ==
    ASSUME StoreTypes, NEW i \in 1..(n + 1), NEW k \in Keys
    PROVE  /\ latestValue(i, k) \in Nat
           /\ GetLatestBeforeIndex(i, k) \in Nat
           /\ latestIsEstimate(i, k) => GetLatestBeforeIndex(i, k) # 0
<1> DEFINE j == GetLatestBeforeIndex(i, k)
<1>1. j \in 0..(i - 1)
      BY LatestFacts
<1>2. j \in Nat /\ (j # 0 => j \in Tasks)
      BY <1>1 DEF StoreTypes
<1> HIDE DEF j
<1>3. (IF j = 0 THEN store[k] ELSE mv[j][k].value) \in Nat
      BY <1>2 DEF StoreTypes, Contents, Items
<1> QED BY <1>2, <1>3 DEF latestValue, latestIsEstimate, j

\* What the step lemmas take for granted of GetLatestBeforeIndex.
LEMMA LatestHolds == ASSUME StoreTypes PROVE Latest
BY LatestFacts, LatestType DEF Latest

\* What the step lemmas take for granted.
LEMMA BasicsHold == Basics
<1>1. Minima
      BY LeastMin DEF Minima
<1>2. Counts
  <2>1. \A K \in SUBSET Keys : IsFiniteSet(K)
        BY KeysAssumption, FS_Subset
  <2>2. \A K \in SUBSET Keys : Cardinality(K) \in Nat
        BY <2>1, FS_CardinalityType
  <2>3. ASSUME NEW K \in SUBSET Keys, NEW k \in Keys \ K
        PROVE  Cardinality(K \cup {k}) = Cardinality(K) + 1
        BY <2>1, FS_AddElement
  <2> QED BY <2>2, <2>3, FS_EmptySet DEF Counts
<1>3. FirstServed
      BY ServedAreFirst DEF FirstServed
<1>4. Runs
      BY RunsExist DEF Runs
<1> QED BY <1>1, <1>2, <1>3, <1>4 DEF Basics

-----------------------------------------------------------------------------
(***************************************************************************)
(* The end of ProcessAll: what the tasks have left is what serial          *)
(* execution leaves.                                                       *)
(***************************************************************************)
\* Task by task, the contents and the responses are those of the serial
\* execution.
LEMMA SerialPrefix ==
    ASSUME StoreTypes, Latest, response \in [Tasks -> Responses],
           NEW y, isSerial(store, block, y),
           \A t \in Tasks : /\ block[t] \in Transactions
                            /\ owned(t) /\ settled(t) /\ consistent(t)
                            /\ txWritesetKeys[t] \subseteq Keys
    PROVE  \A m \in 0..n : y[m] = [store |-> before(m + 1),
                                   responses |-> [i \in 1..m |-> response[i]]]
<1> DEFINE upTo(m) == [store |-> before(m + 1), responses |-> [i \in 1..m |-> response[i]]]
           bad == {m \in 0..n : y[m] # upTo(m)}
<1>1. n \in Nat /\ n = Len(block) /\ Tasks = 1..n
      BY DEF StoreTypes, n
<1>2. y[0] = upTo(0)
  <2>1. before(0 + 1) = store
        BY BeforeFirst
  <2>2. [i \in 1..0 |-> response[i]] = <<>>
        OBVIOUS
  <2> QED BY <2>1, <2>2 DEF isSerial
<1>3. ASSUME NEW m \in 1..n, y[m - 1] = upTo(m - 1) PROVE y[m] = upTo(m)
  <2>1. m \in Tasks /\ m \in Nat /\ m - 1 \in Nat /\ m - 1 + 1 = m /\ m \in 1..(n + 1)
        BY <1>1
  <2> DEFINE rs == [i \in 1..(m - 1) |-> response[i]]
             s == before(m)
  <2>2. y[m - 1] = [store |-> s, responses |-> rs]
        BY <1>3, <2>1
  <2>3. s \in Contents
        BY <2>1, BeforeType
  <2>4. Serial!deliverTx(s, block[m]) = [store |-> over(s, values(m)), read |-> response[m]]
        BY <2>1, <2>3 DEF settled, records, consistent
  <2>5. over(s, values(m)) = before(m + 1)
        BY <2>1, BeforeNext
  <2>6. Append(rs, response[m]) = [i \in 1..m |-> response[i]]
    <3>1. rs \in Seq(Responses) /\ Len(rs) = m - 1
          BY <1>1, <2>1
    <3>2. \A i \in 1..(m - 1) : rs[i] = response[i]
          OBVIOUS
    <3> HIDE DEF rs
    <3>3. DOMAIN Append(rs, response[m]) = 1..m
          BY <2>1, <3>1
    <3>4. \A i \in 1..m : Append(rs, response[m])[i] = response[i]
          BY <2>1, <3>1, <3>2
    <3> QED BY <2>1, <3>1, <3>3, <3>4
  <2>7. y[m] = Serial!deliver(y[m - 1], block[m])
        BY <1>1 DEF isSerial
  <2> HIDE DEF s, rs
  <2>8. Serial!deliver(y[m - 1], block[m])
          = [store |-> before(m + 1), responses |-> Append(rs, response[m])]
    <3> DEFINE r == Serial!deliverTx(s, block[m])
    <3>1. y[m - 1].store = s /\ y[m - 1].responses = rs
          BY <2>2
    <3>2. r.store = before(m + 1) /\ r.read = response[m]
          BY <2>4, <2>5
    <3>3. Serial!deliver(y[m - 1], block[m])
            = [store |-> r.store, responses |-> Append(rs, r.read)]
          BY <3>1 DEF Serial!deliver
    <3> HIDE DEF r
    <3> QED BY <3>2, <3>3
  <2> QED BY <2>6, <2>7, <2>8
<1> HIDE DEF upTo
<1>4. bad = {}
  <2> SUFFICES ASSUME bad # {} PROVE FALSE
      OBVIOUS
  <2>1. bad \subseteq Nat
        BY <1>1
  <2>2. PICK m \in bad : \A i \in bad : m <= i
    <3> HIDE DEF bad
    <3> QED BY <2>1, LeastNumber
  <2>3. m \in 1..n /\ m - 1 \in 0..n
        BY <1>1, <1>2, <2>2
  <2>4. m - 1 \notin bad
        BY <1>1, <2>2, <2>3
  <2> QED BY <1>3, <2>2, <2>3, <2>4
<1> QED BY <1>4 DEF upTo

\* ProcessAll ends with the store and the responses of serial execution.
LEMMA FinishSerial ==
    ASSUME Inv, Latest, Finish
    PROVE  /\ responses = <<>> /\ UNCHANGED block
           /\ store' = Serial!serial(store, block).store
           /\ responses' = Serial!serial(store, block).responses
<1>1. /\ Types /\ StoreTypes /\ Queues /\ phase = "validate" /\ roundDone /\ allValidated
      /\ WriteLatestToStore(n) /\ responses' = collectResponses /\ UNCHANGED block
      BY DEF Inv, Types, Finish, given
<1>2. n \in Nat /\ n = Len(block) /\ Tasks = 1..n /\ block \in Seq(Transactions)
      BY <1>1 DEF StoreTypes, n, Types
<1>3. PICK y : isSerial(store, block, y)
      BY <1>1, <1>2, SerialExists DEF StoreTypes
<1>4. store' = before(n + 1)
      BY <1>1, WriteLatestBefore
<1>5. ASSUME NEW t \in Tasks
      PROVE  /\ block[t] \in Transactions
             /\ owned(t) /\ settled(t) /\ consistent(t)
             /\ txWritesetKeys[t] \subseteq Keys
  <2>1. \A j \in 1..t : status[j] = "validated"
        BY <1>1, <1>2 DEF allValidated
  <2>2. consistent(t)
        BY <1>1, <2>1, ValidatedConsistent
  <2>3. block[t] \in Transactions
        BY <1>2
  <2> QED BY <1>1, <2>2, <2>3, WriteLatestBefore
<1>6. y[n] = [store |-> before(n + 1), responses |-> [i \in 1..n |-> response[i]]]
  <2>1. \A m \in 0..n : y[m] = [store |-> before(m + 1),
                                responses |-> [i \in 1..m |-> response[i]]]
        BY <1>1, <1>3, <1>5, SerialPrefix DEF Types
  <2>2. n \in 0..n
        BY <1>2
  <2> QED BY <2>1, <2>2
<1>7. y[n] = Serial!serial(store, block)
      BY <1>2, <1>3 DEF isSerial
<1>8. responses = <<>> /\ responses' = [i \in 1..n |-> response[i]]
      BY <1>1, <1>2 DEF Queues, collectResponses
<1> DEFINE z == Serial!serial(store, block)
<1>9. z.store = before(n + 1) /\ z.responses = [i \in 1..n |-> response[i]]
  <2> DEFINE rs == [i \in 1..n |-> response[i]]
  <2>1. z = [store |-> before(n + 1), responses |-> rs]
        BY <1>6, <1>7
  <2> HIDE DEF z, rs
  <2>2. z.store = before(n + 1) /\ z.responses = rs
        BY <2>1
  <2> QED BY <2>2 DEF rs
<1> QED BY <1>1, <1>4, <1>8, <1>9

-----------------------------------------------------------------------------
(***************************************************************************)
(* The theorems.                                                           *)
(***************************************************************************)
\* The invariant holds in every state.
LEMMA InvHolds == Spec => []Inv
<1>1. Init => Inv
      BY InitInv
<1>2. Inv /\ [Next]_vars => Inv'
  <2> SUFFICES ASSUME Inv, [Next]_vars PROVE Inv'
      OBVIOUS
  <2> QED BY StepInv, BasicsHold, LatestHolds DEF Inv, Types
<1> QED BY <1>1, <1>2, PTL DEF Spec

\* Whatever the workers and validators interleave, for every block, store,
\* number of workers and iteration limit: ProcessAll changes the store once,
\* at its end, and leaves in it, and returns, what executing the transactions
\* one after the other gives (WriteLatestToStore, collectResponses).
THEOREM ParallelIsSerial == Spec => SerialSpec
<1>1. Init => Serial!Init
      BY DEF Init, Serial!Init
<1>2. Inv /\ [Next]_vars => [Serial!Next]_<<block, store, responses>>
  <2> SUFFICES ASSUME Inv, [Next]_vars
               PROVE  Serial!Next \/ UNCHANGED <<block, store, responses>>
      OBVIOUS
  <2>1. CASE Finish
        BY <2>1, FinishSerial, LatestHolds DEF Inv, Types, Serial!Next
  <2>2. CASE ValidateAll \/ NextRound
        BY <2>2 DEF ValidateAll, NextRound, given
  <2>3. ASSUME NEW t \in Tasks, TaskStep(t) PROVE UNCHANGED <<block, store, responses>>
        BY <2>3 DEF TaskStep, StartExecute, Access, Delivered, RemoveKey, SetKey, EndExecute,
           StartValidate, CheckKey, Checked, InvalidateKey, Invalidated, CheckDependency,
           DependenciesValidated, Rerun, loopVars, given
  <2>4. CASE UNCHANGED vars
        BY <2>4 DEF vars, loopVars, given
  <2> QED BY <2>1, <2>2, <2>3, <2>4 DEF Next, ProcessAll
<1> QED BY <1>1, <1>2, InvHolds, PTL DEF Spec, SerialSpec, Serial!Spec

\* Between rounds an estimate stands for a write of a task that is executed
\* again, under a key that its next writeset removes or replaces
\* (InvalidateWriteset, removeOldWriteset).
THEOREM NoOrphanEstimates == Spec => []EstimatesOwned
<1>1. Inv => EstimatesOwned
  <2> SUFFICES ASSUME Inv, roundDone, NEW t \in Tasks, NEW k \in Keys, IsEstimate(mv[t][k])
               PROVE  status[t] # "validated" /\ k \in txWritesetKeys[t]
      BY DEF EstimatesOwned
  <2>1. execution(t) /\ worker[t].at = "idle"
        BY DEF Inv, Executions, roundDone, idle
  <2>2. mv[t][k] # absent /\ mv[t][k].kind # "value"
        BY DEF IsEstimate, absent
  <2>3. k \in txWritesetKeys[t]
        BY <2>1, <2>2 DEF execution, owned
  <2> QED BY <2>1, <2>2, <2>3 DEF execution, settled
<1> QED BY <1>1, InvHolds, PTL
=============================================================================
