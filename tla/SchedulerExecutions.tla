------------------------ MODULE SchedulerExecutions -------------------------
(***************************************************************************)
(* What one execution of a transaction on the multi-version store says of  *)
(* its serial execution: the execution's own reads and the keys that its   *)
(* iterations were served determine it, so that on any contents that have  *)
(* those reads and serve those keys the serial execution writes the same   *)
(* and gives the same response.  Reads may have come from different        *)
(* moments; nothing is said here of what the store held at any of them.    *)
(***************************************************************************)
EXTENDS SchedulerInvariant, TLAPS

-----------------------------------------------------------------------------
(***************************************************************************)
(* Maps and contents.                                                      *)
(***************************************************************************)
\* Maps with an entry set.
LEMMA PutType ==
    ASSUME NEW V, NEW f \in Partial(V), NEW k \in Keys, NEW v \in V
    PROVE  put(f, k, v) \in Partial(V)
<1>1. PICK K \in SUBSET Keys : f \in [K -> V]
      BY DEF Partial
<1>2. K \cup {k} \in SUBSET Keys /\ put(f, k, v) \in [K \cup {k} -> V]
      BY <1>1 DEF put
<1> QED BY <1>2 DEF Partial

\* The empty map.
LEMMA EmptyType ==
    ASSUME NEW V PROVE empty \in Partial(V) /\ DOMAIN empty = {}
<1>1. DOMAIN empty = {} /\ empty \in [{} -> V]
      BY DEF empty
<1>2. {} \in SUBSET Keys
      OBVIOUS
<1> QED BY <1>1, <1>2 DEF Partial

\* The domain and the values of a partial map.
LEMMA PartialType ==
    ASSUME NEW V, NEW f \in Partial(V)
    PROVE  DOMAIN f \in SUBSET Keys /\ \A k \in DOMAIN f : f[k] \in V
BY DEF Partial

\* Contents with writes are contents.
LEMMA OverType ==
    ASSUME NEW s \in Contents, NEW ws \in Writes
    PROVE  over(s, ws) \in Contents
BY PartialType DEF over, Contents, Writes

\* A write goes over those before.
LEMMA OverPut ==
    ASSUME NEW s \in Contents, NEW ws \in Writes, NEW k \in Keys, NEW v \in Nat
    PROVE  over(s, put(ws, k, v)) = [over(s, ws) EXCEPT ![k] = v]
BY DEF over, put

\* Nothing over contents is the contents.
LEMMA OverEmpty ==
    ASSUME NEW s \in Contents PROVE over(s, empty) = s
<1>1. DOMAIN empty = {}
      BY EmptyType
<1> QED BY <1>1 DEF over, Contents

-----------------------------------------------------------------------------
(***************************************************************************)
(* Reading the multi-version store.                                        *)
(***************************************************************************)
\* What a read of key k gives.
isRead(vs, k, r) ==
    /\ r.vs \in Views /\ r.value \in Nat /\ r.abort \in Nat
    /\ r.vs.writeset = vs.writeset /\ r.vs.iterateset = vs.iterateset
    /\ DOMAIN r.vs.readset \subseteq DOMAIN vs.readset \cup {k}
    /\ \A s \in Contents :
          r.abort = 0 /\ readsFrom(s, r.vs.readset) =>
             readsFrom(s, vs.readset) /\ over(s, vs.writeset)[k] = r.value

\* A value read from below is recorded.
LEMMA UpdateReadSetReads ==
    ASSUME NEW vs \in Views, NEW k \in Keys, NEW v \in Nat,
           k \notin DOMAIN vs.writeset, k \notin DOMAIN vs.readset
    PROVE  isRead(vs, k, [vs |-> UpdateReadSet(vs, k, v), value |-> v, abort |-> 0])
<1> DEFINE one == <<v>>
           old == vs.readset
           rs == put(old, k, one)
           us == UpdateReadSet(vs, k, v)
           V == {<<x>> : x \in Nat}
<1>1. old \in Partial(V) /\ one \in V
      BY DEF Views, Reads
<1>2. /\ rs \in Partial(V) /\ DOMAIN rs = DOMAIN vs.readset \cup {k}
      /\ rs[k] = <<v>> /\ \A j \in DOMAIN vs.readset : j # k => rs[j] = vs.readset[j]
  <2> HIDE DEF one, V, old
  <2>1. put(old, k, one) \in Partial(V)
        BY <1>1, PutType
  <2>2. /\ DOMAIN put(old, k, one) = DOMAIN old \cup {k}
        /\ put(old, k, one)[k] = one
        /\ \A j \in DOMAIN old : j # k => put(old, k, one)[j] = old[j]
        BY DEF put
  <2> QED BY <2>1, <2>2 DEF one, old
<1>3. us = [vs EXCEPT !.readset = rs]
      BY DEF UpdateReadSet
<1> HIDE DEF rs, us
<1>4. /\ us \in Views /\ us.readset = rs
      /\ us.writeset = vs.writeset /\ us.iterateset = vs.iterateset
      BY <1>2, <1>3 DEF Views, Reads
<1>5. ASSUME NEW s \in Contents, readsFrom(s, rs)
      PROVE  readsFrom(s, vs.readset) /\ over(s, vs.writeset)[k] = v
  <2>1. rs[k] = <<s[k]>>
        BY <1>2, <1>5 DEF readsFrom
  <2>2. s[k] = v
        BY <1>2, <2>1
  <2>3. readsFrom(s, vs.readset)
        BY <1>2, <1>5 DEF readsFrom
  <2> QED BY <2>2, <2>3 DEF over
<1> QED BY <1>2, <1>4, <1>5 DEF isRead, us

\* Get reads.
LEMMA GetReads ==
    ASSUME StoreTypes, Latest, NEW vs \in Views, NEW t \in Tasks, NEW k \in Keys
    PROVE  isRead(vs, k, Get(vs, t, k))
<1> DEFINE r == Get(vs, t, k)
<1>1. t \in 1..(n + 1)
      BY DEF StoreTypes
<1>2. /\ latestValue(t, k) \in Nat /\ GetLatestBeforeIndex(t, k) \in Nat
      /\ latestIsEstimate(t, k) => GetLatestBeforeIndex(t, k) # 0
  <2>1. GetLatestBeforeIndex(t, k) \in 0..(t - 1) /\ latestValue(t, k) \in Nat
        BY <1>1 DEF Latest
  <2>2. \A j \in 0..(t - 1) : j \in Nat
        BY <1>1
  <2> QED BY <2>1, <2>2 DEF latestIsEstimate
<1>3. CASE k \in DOMAIN vs.writeset
  <2>1. r = [vs |-> vs, value |-> vs.writeset[k], abort |-> 0]
        BY <1>3 DEF Get
  <2>2. vs.writeset[k] \in Nat
        BY <1>3, PartialType DEF Views, Writes
  <2> QED BY <1>3, <2>1, <2>2 DEF isRead, over
<1>4. CASE k \notin DOMAIN vs.writeset /\ k \in DOMAIN vs.readset
  <2>1. r = [vs |-> vs, value |-> vs.readset[k][1], abort |-> 0]
        BY <1>4 DEF Get
  <2>2. vs.readset[k] \in {<<x>> : x \in Nat}
        BY <1>4, PartialType DEF Views, Reads
  <2>3. vs.readset[k][1] \in Nat
        BY <2>2
  <2>4. \A s \in Contents : readsFrom(s, vs.readset) => s[k] = vs.readset[k][1]
        BY <1>4 DEF readsFrom
  <2> QED BY <1>4, <2>1, <2>3, <2>4 DEF isRead, over
<1>5. CASE k \notin DOMAIN vs.writeset /\ k \notin DOMAIN vs.readset /\ latestIsEstimate(t, k)
  <2>1. r = [vs |-> vs, value |-> nil, abort |-> GetLatestBeforeIndex(t, k)]
        BY <1>5 DEF Get
  <2> QED BY <1>2, <1>5, <2>1 DEF isRead, nil
<1>6. CASE k \notin DOMAIN vs.writeset /\ k \notin DOMAIN vs.readset /\ ~latestIsEstimate(t, k)
  <2>1. r = [vs |-> UpdateReadSet(vs, k, latestValue(t, k)),
             value |-> latestValue(t, k), abort |-> 0]
        BY <1>6 DEF Get
  <2> QED BY <1>2, <1>6, <2>1, UpdateReadSetReads
<1> QED BY <1>3, <1>4, <1>5, <1>6

\* So does an iterator, of the items it collected or of the parent.
LEMMA MergeReads ==
    ASSUME StoreTypes, Latest, NEW vs \in Views, NEW t \in Tasks, NEW items, NEW k \in Keys,
           k \in items \/ (k \notin DOMAIN vs.writeset /\ k \notin DOMAIN vs.readset)
    PROVE  isRead(vs, k, mergeValue(vs, t, items, k))
<1>1. CASE k \in items
      BY <1>1, GetReads DEF mergeValue
<1>2. CASE k \notin items
  <2>1. store[k] \in Nat
        BY DEF StoreTypes, Contents
  <2> QED BY <1>2, <2>1, UpdateReadSetReads DEF mergeValue
<1> QED BY <1>1, <1>2

-----------------------------------------------------------------------------
(***************************************************************************)
(* Serial execution.                                                       *)
(***************************************************************************)
\* A serial execution has a run.
LEMMA RunExists ==
    ASSUME Basics, NEW s \in Contents, NEW tx \in Transactions
    PROVE  isRun(s, tx, run(s, tx))
BY DEF Basics, Runs

\* The keys that an iteration has served when it ends are the first ones.
LEMMA FirstKeysServed ==
    ASSUME Basics, NEW z \in Contents, NEW limit \in Nat \ {0}, NEW I \in SUBSET Keys,
           \/ Cardinality(I) < limit /\ I = {k \in Keys : z[k] # 0}
           \/ /\ Cardinality(I) = limit
              /\ \E m \in Nat : I = {k \in Keys : z[k] # 0 /\ k <= m}
    PROVE  Serial!firstKeys(z, limit) = I
BY DEF Basics, FirstServed

\* The number of keys of a set.
LEMMA KeyCounts ==
    ASSUME Basics, NEW K \in SUBSET Keys
    PROVE  /\ Cardinality(K) \in Nat
           /\ \A k \in Keys \ K : Cardinality(K \cup {k}) = Cardinality(K) + 1
BY DEF Basics, Counts

\* The least element of a set of numbers.
LEMMA MinFacts ==
    ASSUME Basics, NEW S, S \subseteq Nat, S # {}
    PROVE  Min(S) \in S /\ \A y \in S : Min(S) <= y
BY DEF Basics, Minima

\* An access leaves a state.
LEMMA AccessType ==
    ASSUME NEW x \in States, NEW i \in Serial!Instructions
    PROVE  Serial!access(x, i) \in States
<1> USE DEF States, Contents
<1>0. \A K : Serial!readAlso(x, K) \in Contents
      BY DEF Serial!readAlso
<1>1. CASE i.op = "get"
      BY <1>0, <1>1 DEF Serial!access
<1>2. CASE i.op = "iter"
      BY <1>0, <1>2 DEF Serial!access
<1>3. CASE i.op = "set"
  <2>1. i.of \in Keys /\ i.keys \in Keys \X Keys
        BY <1>3 DEF Serial!Instructions
  <2>2. x.read[i.of] \in Nat /\ x.read[i.of] + 1 \in Nat
        BY <2>1
  <2>3. Serial!access(x, i) = [x EXCEPT !.store[Serial!written(i, x.read)] = x.read[i.of] + 1]
        BY <1>3 DEF Serial!access
  <2> QED BY <2>2, <2>3
<1>4. CASE i.op = "del"
      BY <1>4 DEF Serial!access, Serial!Instructions
<1> QED BY <1>1, <1>2, <1>3, <1>4 DEF Serial!Instructions

\* The next state of a run.
LEMMA RunStep ==
    ASSUME Basics, NEW s \in Contents, NEW tx \in Transactions, NEW m \in 1..Len(tx)
    PROVE  /\ run(s, tx)[m - 1] \in States
           /\ run(s, tx)[m] = Serial!access(run(s, tx)[m - 1], tx[m])
           /\ tx[m] \in Serial!Instructions
<1> DEFINE x == run(s, tx)
<1>1. isRun(s, tx, x)
      BY RunExists
<1>2. m - 1 \in 0..Len(tx) /\ tx[m] \in Serial!Instructions
      BY DEF Transactions
<1> HIDE DEF x
<1>3. x[m - 1] \in States /\ x[m] = Serial!access(x[m - 1], tx[m])
      BY <1>1, <1>2 DEF isRun
<1> QED BY <1>2, <1>3 DEF x

-----------------------------------------------------------------------------
(***************************************************************************)
(* The steps of an execution.                                              *)
(***************************************************************************)
\* Outside an iteration what was read is what the serial execution has read.
LEMMA FollowsBetween ==
    ASSUME NEW s \in Contents, NEW tx, NEW w \in RunStates, w.next = nil,
           run(s, tx)[w.pc - 1] \in States
    PROVE  follows(s, tx, w) <=> run(s, tx)[w.pc - 1] = [store |-> over(s, w.vs.writeset),
                                                         read |-> w.read]
<1> DEFINE x == run(s, tx)[w.pc - 1]
<1>1. current(w) = {}
      BY DEF current
<1>2. x = [store |-> x.store, read |-> x.read]
      BY DEF States
<1>3. Serial!readAlso(x, {}) = x.read
      BY DEF Serial!readAlso, States, Contents
<1>4. follows(s, tx, w) <=> x.store = over(s, w.vs.writeset) /\ w.read = x.read
      BY <1>1, <1>3 DEF follows
<1> HIDE DEF x
<1> QED BY <1>2, <1>4 DEF x

\* An access outside iterations is that of the serial execution.
LEMMA StepBetween ==
    ASSUME Basics, NEW tx \in Transactions, NEW w \in RunStates, NEW u \in RunStates,
           running(tx, w), w.pc \in DOMAIN tx, w.next = nil, u.next = nil, u.pc = w.pc + 1,
           \A s \in Contents : agrees(s, u) =>
              /\ agrees(s, w)
              /\ Serial!access([store |-> over(s, w.vs.writeset), read |-> w.read], tx[w.pc])
                    = [store |-> over(s, u.vs.writeset), read |-> u.read]
    PROVE  running(tx, u)
<1>1. w.pc \in 1..Len(tx) /\ w.pc \in Nat /\ Len(tx) \in Nat
      BY DEF RunStates, Transactions
<1>2. u.pc \in 1..(Len(tx) + 1) /\ u.pc - 1 = w.pc
      BY <1>1
<1>3. ASSUME NEW s \in Contents, agrees(s, u) PROVE follows(s, tx, u)
  <2> DEFINE x == run(s, tx)
  <2>1. follows(s, tx, w)
        BY <1>3 DEF running
  <2>2. /\ x[w.pc - 1] \in States /\ tx[w.pc] \in Serial!Instructions
        /\ x[w.pc] = Serial!access(x[w.pc - 1], tx[w.pc])
        BY <1>1, RunStep
  <2>3. x[w.pc - 1] = [store |-> over(s, w.vs.writeset), read |-> w.read]
        BY <2>1, <2>2, FollowsBetween
  <2>4. x[w.pc] = [store |-> over(s, u.vs.writeset), read |-> u.read]
        BY <1>3, <2>2, <2>3
  <2>5. x[u.pc - 1] \in States
        BY <1>2, <2>2, AccessType
  <2> HIDE DEF x
  <2>6. x[u.pc - 1] = [store |-> over(s, u.vs.writeset), read |-> u.read]
        BY <1>2, <2>4
  <2> QED BY <2>5, <2>6, FollowsBetween DEF x
<1> QED BY <1>2, <1>3 DEF running, nil

\* get.
LEMMA StepGet ==
    ASSUME Basics, NEW tx \in Transactions, NEW w \in RunStates, running(tx, w), w.pc \in DOMAIN tx,
           w.next = nil, tx[w.pc].op = "get", NEW r, isRead(w.vs, tx[w.pc].key, r),
           r.abort = 0,
           NEW u \in RunStates, u.next = nil, u.pc = w.pc + 1, u.vs = r.vs,
           u.read = [w.read EXCEPT ![tx[w.pc].key] = r.value]
    PROVE  running(tx, u)
<1> DEFINE i == tx[w.pc]
<1>1. i \in Serial!Instructions /\ i.key \in Keys
      BY DEF Transactions, Serial!Instructions
<1>2. ASSUME NEW s \in Contents, agrees(s, u) PROVE agrees(s, w)
      BY <1>2 DEF agrees, isRead, ended
<1>3. ASSUME NEW s \in Contents, agrees(s, u)
      PROVE  Serial!access([store |-> over(s, w.vs.writeset), read |-> w.read], i)
                = [store |-> over(s, u.vs.writeset), read |-> u.read]
  <2>1. over(s, w.vs.writeset)[i.key] = r.value /\ u.vs.writeset = w.vs.writeset
        BY <1>3 DEF agrees, isRead
  <2> DEFINE x == [store |-> over(s, w.vs.writeset), read |-> w.read]
  <2>2. Serial!access(x, i) = [x EXCEPT !.read = Serial!readAlso(x, {i.key})]
        BY DEF Serial!access
  <2>3. w.read \in Contents
        BY DEF RunStates
  <2>4. u.read = Serial!readAlso(x, {i.key})
        BY <1>1, <2>1, <2>3 DEF Serial!readAlso, Contents
  <2> QED BY <2>1, <2>2, <2>4
<1> QED BY <1>2, <1>3, StepBetween

\* set and del.
LEMMA StepWrite ==
    ASSUME Basics, NEW tx \in Transactions, NEW w \in RunStates, running(tx, w), w.pc \in DOMAIN tx,
           w.next = nil, NEW k \in Keys, NEW v \in Nat,
           \/ /\ tx[w.pc].op = "set" /\ k = Serial!written(tx[w.pc], w.read)
              /\ v = w.read[tx[w.pc].of] + 1
           \/ tx[w.pc].op = "del" /\ k = tx[w.pc].key /\ v = nil,
           NEW u \in RunStates, u.next = nil, u.pc = w.pc + 1, u.read = w.read,
           u.vs = [w.vs EXCEPT !.writeset = put(w.vs.writeset, k, v)]
    PROVE  running(tx, u)
<1> DEFINE i == tx[w.pc]
<1>1. w.vs \in Views /\ w.vs.writeset \in Writes
      BY DEF RunStates, Views
<1>2. /\ u.vs.writeset = put(w.vs.writeset, k, v)
      /\ u.vs.readset = w.vs.readset /\ u.vs.iterateset = w.vs.iterateset
      BY <1>1 DEF Views
<1>3. ASSUME NEW s \in Contents, agrees(s, u) PROVE agrees(s, w)
      BY <1>2, <1>3 DEF agrees, ended
<1>4. ASSUME NEW s \in Contents, agrees(s, u)
      PROVE  Serial!access([store |-> over(s, w.vs.writeset), read |-> w.read], i)
                = [store |-> over(s, u.vs.writeset), read |-> u.read]
  <2> DEFINE z == over(s, w.vs.writeset)
  <2>1. over(s, u.vs.writeset) = [z EXCEPT ![k] = v]
        BY <1>1, <1>2, OverPut
  <2>2. Serial!access([store |-> z, read |-> w.read], i)
          = [store |-> [z EXCEPT ![k] = v], read |-> w.read]
    <3> HIDE DEF z
    <3>1. CASE i.op = "set" /\ k = Serial!written(i, w.read) /\ v = w.read[i.of] + 1
      <4> HIDE DEF i
      <4> QED BY <3>1 DEF Serial!access
    <3>2. CASE i.op = "del" /\ k = i.key /\ v = nil
      <4> HIDE DEF i
      <4> QED BY <3>2 DEF Serial!access, nil
    <3> QED BY <3>1, <3>2
  <2> QED BY <2>1, <2>2
<1> QED BY <1>3, <1>4, StepBetween

\* A view with its last tracker changed.
withLast(vs, tr) ==
    [vs EXCEPT !.iterateset = [m \in 1..Len(@) |-> IF m = Len(@) THEN tr ELSE @[m]]]

\* What changing the last tracker does.
LEMMA WithLast ==
    ASSUME NEW vs \in Views, Len(vs.iterateset) # 0, NEW tr \in Trackers
    PROVE  LET us == withLast(vs, tr)
               L == Len(vs.iterateset)
           IN  /\ us \in Views /\ us.readset = vs.readset /\ us.writeset = vs.writeset
               /\ Len(us.iterateset) = L /\ us.iterateset[L] = tr
               /\ \A m \in 1..(L - 1) : us.iterateset[m] = vs.iterateset[m]
<1> DEFINE its == vs.iterateset
           L == Len(its)
           new == [m \in 1..L |-> IF m = L THEN tr ELSE its[m]]
           us == withLast(vs, tr)
<1>1. its \in Seq(Trackers) /\ L \in Nat \ {0}
      BY DEF Views
<1>2. \A m \in 1..L : its[m] \in Trackers
      BY <1>1
<1>3. new \in Seq(Trackers) /\ Len(new) = L
  <2>1. new \in [1..L -> Trackers]
        BY <1>2
  <2> HIDE DEF new, L
  <2> QED BY <1>1, <2>1
<1>4. new[L] = tr /\ \A m \in 1..(L - 1) : new[m] = its[m]
      BY <1>1
<1>5. us = [vs EXCEPT !.iterateset = new]
      BY DEF withLast
<1> HIDE DEF new, us, L
<1>6. us \in Views /\ us.readset = vs.readset /\ us.writeset = vs.writeset
      /\ us.iterateset = new
      BY <1>3, <1>5 DEF Views
<1> QED BY <1>3, <1>4, <1>6 DEF us, L

\* AddKey and reachedEnd change the last tracker.
LEMMA AddKeyLast ==
    ASSUME NEW vs \in Views, Len(vs.iterateset) # 0, NEW k \in Keys
    PROVE  LET tr == vs.iterateset[Len(vs.iterateset)]
               new == [tr EXCEPT !.iteratedKeys = @ \cup {k}, !.earlyStopKey = k]
           IN  tr \in Trackers /\ new \in Trackers /\ AddKey(vs, k) = withLast(vs, new)
<1> DEFINE its == vs.iterateset
           L == Len(its)
           tr == its[L]
           new == [tr EXCEPT !.iteratedKeys = @ \cup {k}, !.earlyStopKey = k]
<1>1. its \in Seq(Trackers) /\ L \in Nat \ {0} /\ L \in DOMAIN its
      BY DEF Views
<1>2. tr \in Trackers /\ new \in Trackers
  <2>1. tr \in Trackers
        BY <1>1
  <2> HIDE DEF tr
  <2> QED BY <2>1, KeysAssumption DEF Trackers
<1>3. [its EXCEPT ![L] = new] = [m \in 1..L |-> IF m = L THEN new ELSE its[m]]
      BY <1>1
<1>4. AddKey(vs, k) = [vs EXCEPT !.iterateset = [its EXCEPT ![L] = new]]
      BY <1>1, <1>2 DEF AddKey, Views, Trackers
<1> QED BY <1>2, <1>3, <1>4 DEF withLast

\* reachedEnd changes the last tracker only.
LEMMA ReachedEndLast ==
    ASSUME NEW vs \in Views, Len(vs.iterateset) # 0
    PROVE  LET tr == vs.iterateset[Len(vs.iterateset)]
               new == [tr EXCEPT !.earlyStopKey = nil]
           IN  tr \in Trackers /\ new \in Trackers /\ reachedEnd(vs) = withLast(vs, new)
<1> DEFINE its == vs.iterateset
           L == Len(its)
           tr == its[L]
           new == [tr EXCEPT !.earlyStopKey = nil]
<1>1. its \in Seq(Trackers) /\ L \in Nat \ {0} /\ L \in DOMAIN its
      BY DEF Views
<1>2. tr \in Trackers /\ new \in Trackers
  <2>1. tr \in Trackers
        BY <1>1
  <2> HIDE DEF tr
  <2> QED BY <2>1 DEF Trackers, nil
<1>3. [its EXCEPT ![L] = new] = [m \in 1..L |-> IF m = L THEN new ELSE its[m]]
  <2> HIDE DEF new, L, its
  <2>1. its = [m \in 1..L |-> its[m]]
        BY <1>1 DEF L
  <2> QED BY <2>1
<1>4. reachedEnd(vs) = [vs EXCEPT !.iterateset = [its EXCEPT ![L] = new]]
      BY <1>1, <1>2 DEF reachedEnd, Views, Trackers
<1> QED BY <1>2, <1>3, <1>4 DEF withLast

\* iter: the iterator is created.
LEMMA StepIter ==
    ASSUME Basics, NEW tx \in Transactions, NEW w \in RunStates, running(tx, w), w.pc \in DOMAIN tx,
           w.next = nil, tx[w.pc].op = "iter",
           NEW u \in RunStates, u.pc = w.pc, u.read = w.read, u.next = 1,
           u.left = tx[w.pc].limit,
           DOMAIN w.vs.writeset \subseteq u.items, DOMAIN w.vs.readset \subseteq u.items,
           u.vs = [w.vs EXCEPT !.iterateset = Append(@, NewIterationTracker(w.vs))]
    PROVE  running(tx, u)
<1> DEFINE its == w.vs.iterateset
           L == Len(its)
           tr == NewIterationTracker(w.vs)
<1>1. its \in Seq(Trackers) /\ L \in Nat /\ w.vs \in Views /\ w.vs.writeset \in Writes
      BY DEF RunStates, Views
<1>2. tr \in Trackers /\ tr.iteratedKeys = {} /\ tr.writeset = w.vs.writeset
      BY <1>1 DEF NewIterationTracker, Trackers, nil
<1>3. /\ u.vs.readset = w.vs.readset /\ u.vs.writeset = w.vs.writeset
      /\ u.vs.iterateset = Append(its, tr)
      BY <1>1 DEF Views
<1> HIDE DEF tr
<1>4. /\ Len(u.vs.iterateset) = L + 1 /\ u.vs.iterateset[L + 1] = tr
      /\ \A m \in 1..L : u.vs.iterateset[m] = its[m]
      BY <1>1, <1>2, <1>3
<1>5. lastTracker(u) = tr /\ current(u) = {} /\ ended(u) = L
      BY <1>1, <1>2, <1>4 DEF lastTracker, current, ended, nil
<1>6. tx[w.pc].limit \in Nat \ {0} /\ w.pc <= Len(tx)
      BY DEF Transactions, Serial!Instructions
<1>7. iterating(tx, u)
  <2>1. Cardinality(tr.iteratedKeys) = 0
        BY <1>2 DEF Basics, Counts
  <2>2. u.left + 0 = tx[w.pc].limit /\ u.left # 0
        BY <1>6
  <2>3. Len(u.vs.iterateset) # 0
        BY <1>1, <1>4
  <2> QED BY <1>2, <1>3, <1>5, <1>6, <2>1, <2>2, <2>3 DEF iterating
<1>8. ASSUME NEW s \in Contents, agrees(s, u) PROVE follows(s, tx, u)
  <2>1. ended(w) = L /\ current(w) = {}
        BY DEF ended, current
  <2>2. agrees(s, w)
        BY <1>3, <1>4, <1>5, <1>8, <2>1 DEF agrees, iteratesOver
  <2>3. follows(s, tx, w)
        BY <2>2 DEF running
  <2> QED BY <1>3, <1>5, <2>1, <2>3 DEF follows
<1> QED BY <1>7, <1>8 DEF running

\* A key without a value is skipped.
LEMMA StepSkip ==
    ASSUME NEW tx \in Transactions, NEW w \in RunStates, running(tx, w), w.next # nil,
           NEW k \in Keys, k >= w.next, NEW r, isRead(w.vs, k, r), r.abort = 0,
           NEW u \in RunStates, u.pc = w.pc, u.read = w.read, u.items = w.items,
           u.left = w.left, u.next = k + 1, u.vs = r.vs
    PROVE  running(tx, u)
<1>1. k \in Nat /\ w.next \in Nat /\ u.next # nil
      BY KeysAssumption DEF RunStates, nil
<1>2. /\ u.vs.writeset = w.vs.writeset /\ u.vs.iterateset = w.vs.iterateset
      /\ DOMAIN u.vs.readset \subseteq DOMAIN w.vs.readset \cup {k}
      BY DEF isRead
<1>3. lastTracker(u) = lastTracker(w) /\ current(u) = current(w) /\ ended(u) = ended(w)
      BY <1>1, <1>2 DEF lastTracker, current, ended
<1>4. iterating(tx, w)
      BY DEF running
<1>5. w.vs \in Views /\ Len(w.vs.iterateset) \in Nat
      BY DEF RunStates, Views
<1>6. lastTracker(w).iteratedKeys \subseteq Nat /\ DOMAIN w.vs.readset \subseteq Nat
  <2>1. lastTracker(w) \in Trackers
        BY <1>4, <1>5 DEF iterating, lastTracker, Views
  <2>2. DOMAIN w.vs.readset \subseteq Keys
        BY <1>5, PartialType DEF Views, Reads
  <2> QED BY <2>1, <2>2, KeysAssumption DEF Trackers
<1>7. \A j \in Nat : j < w.next => j < u.next
      BY <1>1
<1>8. ASSUME NEW j \in DOMAIN u.vs.readset PROVE j \in u.items \/ j < u.next
  <2>1. CASE j = k
        BY <1>1, <2>1
  <2>2. CASE j \in DOMAIN w.vs.readset
        BY <1>4, <1>6, <1>7, <2>2 DEF iterating
  <2> QED BY <1>2, <2>1, <2>2
<1>9. iterating(tx, u)
      BY <1>2, <1>3, <1>4, <1>6, <1>7, <1>8 DEF iterating
<1>10. ASSUME NEW s \in Contents, agrees(s, u) PROVE follows(s, tx, u)
  <2>1. agrees(s, w)
        BY <1>2, <1>3, <1>10 DEF agrees, isRead
  <2>2. follows(s, tx, w)
        BY <2>1 DEF running
  <2> QED BY <1>2, <1>3, <2>2 DEF follows
<1>11. u.pc \in 1..(Len(tx) + 1)
       BY DEF running
<1> QED BY <1>9, <1>10, <1>11 DEF running

\* What an iteration in progress consists of.
LEMMA IteratingFacts ==
    ASSUME NEW tx \in Transactions, NEW w \in RunStates, running(tx, w), w.next # nil
    PROVE  /\ w.vs \in Views /\ Len(w.vs.iterateset) \in Nat \ {0}
           /\ w.vs.writeset \in Writes
           /\ lastTracker(w) \in Trackers
           /\ lastTracker(w).iteratedKeys \in SUBSET Keys
           /\ \A j \in lastTracker(w).iteratedKeys : j \in Nat /\ j < w.next
           /\ DOMAIN w.vs.readset \subseteq Nat
           /\ w.pc \in 1..Len(tx) /\ w.pc \in DOMAIN tx
           /\ tx[w.pc].limit \in Nat \ {0} /\ tx[w.pc] \in Serial!Instructions
           /\ w.left \in Nat \ {0} /\ w.next \in Nat /\ w.read \in Contents
<1>1. iterating(tx, w) /\ w.pc \in 1..(Len(tx) + 1)
      BY DEF running
<1>2. /\ w.vs \in Views /\ w.vs.iterateset \in Seq(Trackers) /\ w.vs.writeset \in Writes
      /\ w.pc \in Nat /\ w.left \in Nat /\ w.next \in Nat /\ w.read \in Contents
      BY DEF RunStates, Views
<1>3. Len(w.vs.iterateset) \in Nat \ {0}
      BY <1>1, <1>2 DEF iterating
<1>4. lastTracker(w) \in Trackers
      BY <1>2, <1>3 DEF lastTracker
<1>5. lastTracker(w).iteratedKeys \in SUBSET Keys
      BY <1>4 DEF Trackers
<1>7. \A j \in lastTracker(w).iteratedKeys : j \in Nat /\ j < w.next
      BY <1>1, <1>5, KeysAssumption DEF iterating
<1>8. DOMAIN w.vs.readset \subseteq Nat
  <2>1. DOMAIN w.vs.readset \subseteq Keys
        BY <1>2, PartialType DEF Views, Reads
  <2> QED BY <2>1, KeysAssumption
<1>9. w.pc \in 1..Len(tx) /\ w.pc \in DOMAIN tx
      BY <1>1, <1>2 DEF iterating, Transactions
<1>10. tx[w.pc] \in Serial!Instructions
       BY <1>9 DEF Transactions
<1>11. tx[w.pc].limit \in Nat \ {0}
       BY <1>1, <1>10 DEF iterating, Serial!Instructions
<1>12. w.left \in Nat \ {0}
       BY <1>1, <1>2 DEF iterating
<1> QED BY <1>2, <1>3, <1>4, <1>5, <1>7, <1>8, <1>9, <1>10, <1>11, <1>12

\* What is read of the key served is what the serial execution would read.
LEMMA ServedRead ==
    ASSUME NEW tx \in Transactions, NEW w \in RunStates, running(tx, w), w.next # nil,
           NEW k \in Keys, NEW r, isRead(w.vs, k, r), r.abort = 0,
           NEW s \in Contents, agrees(s, w), readsFrom(s, r.vs.readset)
    PROVE  [w.read EXCEPT ![k] = r.value]
             = Serial!readAlso(run(s, tx)[w.pc - 1], lastTracker(w).iteratedKeys \cup {k})
<1> DEFINE I == lastTracker(w).iteratedKeys
           x == run(s, tx)[w.pc - 1]
<1>1. w.read \in Contents
      BY IteratingFacts
<1>2. follows(s, tx, w)
      BY DEF running
<1>3. w.read = Serial!readAlso(x, I) /\ x.store = over(s, w.vs.writeset)
      BY <1>2 DEF follows, current
<1>4. x.store[k] = r.value
      BY <1>3 DEF isRead
<1> HIDE DEF I, x
<1>5. [w.read EXCEPT ![k] = r.value] = Serial!readAlso(x, I \cup {k})
      BY <1>1, <1>3, <1>4 DEF Serial!readAlso, Contents
<1> QED BY <1>5 DEF I, x

\* A key with a value is served, and the iteration goes on.
LEMMA StepServe ==
    ASSUME Basics, NEW tx \in Transactions, NEW w \in RunStates, running(tx, w), w.next # nil,
           NEW k \in Keys, k >= w.next, NEW r, isRead(w.vs, k, r), r.abort = 0, w.left # 1,
           NEW u \in RunStates, u.pc = w.pc, u.read = [w.read EXCEPT ![k] = r.value],
           u.items = w.items,
           u.left = w.left - 1, u.next = k + 1, u.vs = AddKey(r.vs, k)
    PROVE  running(tx, u)
<1> DEFINE tr == lastTracker(w)
           new == [tr EXCEPT !.iteratedKeys = @ \cup {k}, !.earlyStopKey = k]
           L == Len(w.vs.iterateset)
<1>1. k \in Nat /\ u.next # nil
      BY KeysAssumption DEF nil
<1>2. /\ w.vs \in Views /\ L \in Nat \ {0} /\ tr \in Trackers
      /\ tr.iteratedKeys \in SUBSET Keys
      /\ \A j \in tr.iteratedKeys : j \in Nat /\ j < w.next
      /\ DOMAIN w.vs.readset \subseteq Nat /\ w.left \in Nat \ {0} /\ w.next \in Nat
      /\ tx[w.pc].limit \in Nat \ {0}
      BY IteratingFacts
<1>3. /\ r.vs \in Views /\ r.vs.writeset = w.vs.writeset
      /\ r.vs.iterateset = w.vs.iterateset
      /\ DOMAIN r.vs.readset \subseteq DOMAIN w.vs.readset \cup {k}
      BY ONLY isRead(w.vs, k, r) DEF isRead
<1>4. new \in Trackers /\ u.vs = withLast(r.vs, new)
  <2>1. Len(r.vs.iterateset) # 0 /\ tr = r.vs.iterateset[Len(r.vs.iterateset)]
        BY <1>2, <1>3 DEF lastTracker
  <2> QED BY ONLY <1>3, <2>1, AddKeyLast, k \in Keys, u.vs = AddKey(r.vs, k)
<1>5. /\ new.iteratedKeys = tr.iteratedKeys \cup {k} /\ new.writeset = tr.writeset
      BY <1>2 DEF Trackers
<1> HIDE DEF new, tr
<1>6. /\ u.vs.readset = r.vs.readset /\ u.vs.writeset = r.vs.writeset
      /\ Len(u.vs.iterateset) = L /\ u.vs.iterateset[L] = new
      /\ \A m \in 1..(L - 1) : u.vs.iterateset[m] = w.vs.iterateset[m]
  <2>1. Len(r.vs.iterateset) = L /\ L # 0
        BY <1>2, <1>3
  <2> QED BY ONLY <1>3, <1>4, <2>1, WithLast
<1>7. lastTracker(u) = new /\ current(u) = tr.iteratedKeys \cup {k} /\ ended(u) = L - 1
      BY <1>1, <1>5, <1>6 DEF lastTracker, current, ended
<1>8. iterating(tx, w)
      BY DEF running
<1>9. \A j \in Nat : j < w.next => j < u.next
      BY <1>1, <1>2
<1>10. ASSUME NEW j \in DOMAIN u.vs.readset PROVE j \in u.items \/ j < u.next
  <2>1. CASE j = k
        BY <1>1, <2>1
  <2>2. CASE j \in DOMAIN w.vs.readset
        BY <1>2, <1>8, <1>9, <2>2 DEF iterating
  <2> QED BY <1>3, <1>6, <2>1, <2>2
<1>11. u.left # 0 /\ u.left + Cardinality(new.iteratedKeys) = tx[w.pc].limit
  <2>1. k \notin tr.iteratedKeys
        BY <1>1, <1>2
  <2>2. Cardinality(new.iteratedKeys) = Cardinality(tr.iteratedKeys) + 1
    <3> DEFINE I == tr.iteratedKeys
    <3>1. I \in SUBSET Keys /\ k \in Keys \ I /\ new.iteratedKeys = I \cup {k}
          BY <1>2, <1>5, <2>1
    <3> HIDE DEF I
    <3>2. Cardinality(I \cup {k}) = Cardinality(I) + 1
          BY <3>1, KeyCounts
    <3> QED BY <3>1, <3>2 DEF I
  <2>3. w.left + Cardinality(tr.iteratedKeys) = tx[w.pc].limit
        BY <1>8 DEF iterating, tr
  <2>4. Cardinality(tr.iteratedKeys) \in Nat
        BY <1>2, KeyCounts
  <2> QED BY <1>2, <2>2, <2>3, <2>4
<1>12. \A j \in new.iteratedKeys : j < u.next
       BY <1>1, <1>2, <1>5, <1>9
<1>13. new.writeset = u.vs.writeset
       BY <1>3, <1>5, <1>6, <1>8 DEF iterating, tr
<1>14. iterating(tx, u)
       BY <1>2, <1>3, <1>6, <1>7, <1>8, <1>10, <1>11, <1>12, <1>13 DEF iterating
<1>15. ASSUME NEW s \in Contents, agrees(s, u) PROVE follows(s, tx, u)
  <2>1. ended(w) = L - 1
        BY DEF ended
  <2>2. agrees(s, w) /\ readsFrom(s, r.vs.readset)
        BY <1>2, <1>6, <1>7, <1>15, <2>1 DEF agrees, isRead, iteratesOver
  <2>3. follows(s, tx, w)
        BY <2>2 DEF running
  <2>4. u.read = Serial!readAlso(run(s, tx)[w.pc - 1], lastTracker(w).iteratedKeys \cup {k})
    <3>1. [w.read EXCEPT ![k] = r.value]
            = Serial!readAlso(run(s, tx)[w.pc - 1], lastTracker(w).iteratedKeys \cup {k})
          BY <2>2, ServedRead
    <3> QED BY ONLY <3>1, u.read = [w.read EXCEPT ![k] = r.value]
  <2> QED BY <1>3, <1>6, <1>7, <2>3, <2>4 DEF follows, tr
<1>16. u.pc \in 1..(Len(tx) + 1)
       BY DEF running
<1> QED BY <1>14, <1>15, <1>16 DEF running

\* The end of an iteration: on contents that it agrees with now, the keys
\* served are the first ones.
LEMMA StepEnd ==
    ASSUME Basics, NEW tx \in Transactions, NEW w \in RunStates, running(tx, w), w.next # nil,
           NEW u \in RunStates, u.pc = w.pc + 1, u.next = nil,
           NEW vs \in Views, vs.writeset = w.vs.writeset, vs.iterateset = w.vs.iterateset,
           NEW tr \in Trackers, tr.writeset = w.vs.writeset, u.vs = withLast(vs, tr),
           \/ Cardinality(tr.iteratedKeys) < tx[w.pc].limit /\ tr.earlyStopKey = nil
           \/ Cardinality(tr.iteratedKeys) = tx[w.pc].limit /\ tr.earlyStopKey # nil,
           \A s \in Contents : readsFrom(s, vs.readset) => readsFrom(s, w.vs.readset),
           \A s \in Contents : agrees(s, w) /\ readsFrom(s, vs.readset) =>
              u.read = Serial!readAlso(run(s, tx)[w.pc - 1], tr.iteratedKeys)
    PROVE  running(tx, u)
<1> DEFINE L == Len(w.vs.iterateset)
           I == tr.iteratedKeys
           limit == tx[w.pc].limit
<1>1. /\ L \in Nat \ {0} /\ w.vs.writeset \in Writes /\ w.pc \in 1..Len(tx)
      /\ limit \in Nat \ {0} /\ tx[w.pc] \in Serial!Instructions
      BY IteratingFacts
<1>2. /\ u.vs.readset = vs.readset /\ u.vs.writeset = w.vs.writeset
      /\ Len(u.vs.iterateset) = L /\ u.vs.iterateset[L] = tr
      /\ \A m \in 1..(L - 1) : u.vs.iterateset[m] = w.vs.iterateset[m]
      BY <1>1, WithLast
<1>3. ended(u) = L /\ ended(w) = L - 1
      BY <1>2 DEF ended
<1>4. w.pc \in Nat /\ Len(tx) \in Nat
      BY DEF RunStates, Transactions
<1>5. u.pc \in 1..(Len(tx) + 1) /\ u.pc - 1 = w.pc
      BY <1>1, <1>4
<1>6. ASSUME NEW s \in Contents, agrees(s, u) PROVE follows(s, tx, u)
  <2> DEFINE x == run(s, tx)[w.pc - 1]
             z == over(s, w.vs.writeset)
  <2>1. readsFrom(s, vs.readset) /\ iteratesOver(s, u.vs.iterateset, L)
        BY <1>2, <1>3, <1>6 DEF agrees
  <2>2. agrees(s, w)
    <3>1. \A m \in 1..(L - 1) : m \in 1..L
          BY <1>1
    <3> QED BY <1>2, <1>3, <2>1, <3>1 DEF agrees, iteratesOver
  <2>3. served(s, tr) = I
    <3>1. L \in 1..L
          BY <1>1
    <3> QED BY <1>2, <2>1, <3>1 DEF iteratesOver
  <2>4. follows(s, tx, w)
        BY <2>2 DEF running
  <2>5. x.store = z /\ u.read = Serial!readAlso(x, I)
        BY <2>1, <2>2, <2>4 DEF follows
  <2>6. z \in Contents
        BY <1>1, OverType
  <2>7. x \in States /\ run(s, tx)[w.pc] = Serial!access(x, tx[w.pc])
        BY <1>1, RunStep
  <2>8. I = {k \in Keys : (tr.earlyStopKey = nil \/ k <= tr.earlyStopKey) /\ z[k] # nil}
        BY <2>3 DEF served
  <2>9. tr.earlyStopKey \in Nat /\ I \in SUBSET Keys
        BY DEF Trackers
  <2> HIDE DEF I, z, x, limit
  <2>10. Serial!firstKeys(z, limit) = I
    <3>1. CASE Cardinality(I) < limit /\ tr.earlyStopKey = nil
      <4>1. I = {k \in Keys : z[k] # 0}
            BY <2>8, <3>1 DEF nil
      <4> QED BY <1>1, <2>6, <2>9, <3>1, <4>1, FirstKeysServed
    <3>2. CASE Cardinality(I) = limit /\ tr.earlyStopKey # nil
      <4>1. I = {k \in Keys : z[k] # 0 /\ k <= tr.earlyStopKey}
            BY <2>8, <3>2 DEF nil
      <4> QED BY <1>1, <2>6, <2>9, <3>2, <4>1, FirstKeysServed
    <3> QED BY <3>1, <3>2 DEF I, limit
  <2>11. tx[w.pc].op = "iter"
         BY DEF running, iterating
  <2>12. Serial!access(x, tx[w.pc])
           = [x EXCEPT !.read = Serial!readAlso(x, Serial!firstKeys(x.store, limit))]
         BY <2>11 DEF Serial!access, limit
  <2>13. Serial!access(x, tx[w.pc]) = [x EXCEPT !.read = u.read]
         BY <2>5, <2>10, <2>12
  <2>14. run(s, tx)[w.pc] = [store |-> z, read |-> u.read]
         BY <2>5, <2>7, <2>13 DEF States
  <2>15. run(s, tx)[u.pc - 1] \in States
         BY <1>1, <1>5, <2>7, AccessType
  <2>16. run(s, tx)[u.pc - 1] = [store |-> over(s, u.vs.writeset), read |-> u.read]
         BY <1>2, <1>5, <2>14 DEF z
  <2> QED BY <2>15, <2>16, FollowsBetween
<1> QED BY <1>5, <1>6 DEF running

\* The worker after an iteration.
LEMMA EndIterationType ==
    ASSUME NEW w \in RunStates, NEW vs \in Views, NEW rd \in Contents
    PROVE  LET u == endIteration(w, vs, rd)
           IN  u \in RunStates /\ u.pc = w.pc + 1 /\ u.next = nil /\ u.vs = vs /\ u.read = rd
<1>1. w.pc + 1 \in Nat /\ {} \in SUBSET Keys /\ 0 \in Nat
      BY DEF RunStates
<1> QED BY <1>1 DEF endIteration, RunStates, nil

\* The iterator's next key: the end, an abort, a key to skip or one to serve.
LEMMA StepNext ==
    ASSUME Basics, Latest, StoreTypes, NEW t \in Tasks, NEW tx \in Transactions,
           NEW w \in RunStates,
           running(tx, w), w.next # nil
    PROVE  LET u == IterNextStep(t, w)
           IN  u \in RunStates /\ (u.pc # 0 => running(tx, u))
<1> DEFINE ahead == {k \in ParentKeys \cup w.items : k >= w.next}
           k == Min(ahead)
           r == mergeValue(w.vs, t, w.items, k)
           u == IterNextStep(t, w)
           tr == lastTracker(w)
           L == Len(w.vs.iterateset)
<1>1. /\ w.vs \in Views /\ L \in Nat \ {0} /\ tr \in Trackers
      /\ tr.iteratedKeys \in SUBSET Keys
      /\ \A j \in tr.iteratedKeys : j \in Nat /\ j < w.next
      /\ w.pc \in 1..Len(tx) /\ w.pc \in Nat
      /\ tx[w.pc].limit \in Nat \ {0}
      /\ w.left \in Nat \ {0} /\ w.next \in Nat /\ w.read \in Contents
  <2>1. w.pc \in Nat
        BY DEF RunStates
  <2> QED BY <2>1, IteratingFacts
<1>2. iterating(tx, w)
      BY DEF running
<1>3. tr.writeset = w.vs.writeset /\ w.left + Cardinality(tr.iteratedKeys) = tx[w.pc].limit
      BY <1>2 DEF iterating
<1>4. Cardinality(tr.iteratedKeys) \in Nat
      BY <1>1, KeyCounts
<1>5. CASE ahead = {}
  <2> DEFINE new == [tr EXCEPT !.earlyStopKey = nil]
             vs == reachedEnd(w.vs)
  <2>1. u = endIteration(w, vs, w.read)
        BY <1>5 DEF IterNextStep
  <2>2. new \in Trackers /\ vs = withLast(w.vs, new)
        BY <1>1, ReachedEndLast DEF lastTracker
  <2>3. new.iteratedKeys = tr.iteratedKeys /\ new.writeset = tr.writeset
        /\ new.earlyStopKey = nil
        BY <1>1 DEF Trackers
  <2> HIDE DEF new, u
  <2>4. vs \in Views
        BY <1>1, <2>2, WithLast
  <2> HIDE DEF vs
  <2>5. u \in RunStates /\ u.pc = w.pc + 1 /\ u.next = nil /\ u.vs = vs /\ u.read = w.read
    <3>1. w.read \in Contents
          BY <1>1
    <3> QED BY ONLY w \in RunStates, <2>1, <2>4, <3>1, EndIterationType
  <2>6. Cardinality(new.iteratedKeys) < tx[w.pc].limit
        BY <1>1, <1>3, <1>4, <2>3
  <2>7. ASSUME NEW s \in Contents, agrees(s, w)
        PROVE  u.read = Serial!readAlso(run(s, tx)[w.pc - 1], new.iteratedKeys)
    <3>1. follows(s, tx, w)
          BY <2>7 DEF running
    <3>2. current(w) = new.iteratedKeys
          BY <2>3 DEF current
    <3> QED BY ONLY <2>5, <3>1, <3>2 DEF follows
  <2>8. running(tx, u)
        BY <1>1, <1>3, <2>2, <2>3, <2>5, <2>6, <2>7, StepEnd
  <2> QED BY <2>5, <2>8 DEF u
<1>6. CASE ahead # {}
  <2>1. ahead \subseteq Keys /\ ahead \subseteq Nat
        BY KeysAssumption DEF ParentKeys, RunStates
  <2>2. k \in ahead
    <3> HIDE DEF ahead
    <3> QED BY <1>6, <2>1, MinFacts
  <2>3. k \in Keys /\ k \in Nat /\ k >= w.next
        BY <2>1, <2>2
  <2>4. k \in w.items \/ (k \notin DOMAIN w.vs.writeset /\ k \notin DOMAIN w.vs.readset)
    <3>1. ~(k < w.next)
          BY <1>1, <2>3
    <3> HIDE DEF k
    <3> QED BY <1>2, <3>1 DEF iterating
  <2> HIDE DEF k
  <2>5. isRead(w.vs, k, r)
        BY <1>1, <2>3, <2>4, MergeReads
  <2> DEFINE rd == [w.read EXCEPT ![k] = r.value]
  <2>6. u = afterRead(w, r,
            IF r.value = nil THEN [w EXCEPT !.vs = r.vs, !.next = k + 1]
            ELSE IF w.left = 1 THEN endIteration(w, AddKey(r.vs, k), rd)
            ELSE [w EXCEPT !.vs = AddKey(r.vs, k), !.read = rd,
                           !.next = k + 1, !.left = @ - 1])
        BY <1>6 DEF IterNextStep, k
  <2> HIDE DEF r, u
  <2>7. /\ r.vs \in Views /\ r.value \in Nat /\ r.abort \in Nat
        /\ r.vs.writeset = w.vs.writeset /\ r.vs.iterateset = w.vs.iterateset
        BY <2>5 DEF isRead
  <2>0. rd \in Contents
        BY <1>1, <2>7 DEF Contents
  <2> HIDE DEF rd
  <2>8. CASE r.abort # 0
    <3>1. u = [w EXCEPT !.pc = 0, !.vs = r.vs, !.left = r.abort]
          BY <2>6, <2>8 DEF afterRead
    <3>2. u \in RunStates /\ u.pc = 0
          BY <2>7, <3>1 DEF RunStates
    <3> QED BY <3>2 DEF u
  <2>9. CASE r.abort = 0 /\ r.value = nil
    <3>1. u = [w EXCEPT !.vs = r.vs, !.next = k + 1]
          BY <2>6, <2>9 DEF afterRead
    <3>2. k + 1 \in Nat /\ r.vs \in Views
          BY <2>3, <2>7
    <3>3. /\ u \in RunStates /\ u.pc = w.pc /\ u.read = w.read /\ u.items = w.items
          /\ u.left = w.left /\ u.next = k + 1 /\ u.vs = r.vs
          BY <3>1, <3>2 DEF RunStates
    <3>4. running(tx, u)
          BY <2>3, <2>5, <2>9, <3>3, StepSkip
    <3> QED BY <3>3, <3>4 DEF u
  <2> DEFINE vs == AddKey(r.vs, k)
             new == [tr EXCEPT !.iteratedKeys = @ \cup {k}, !.earlyStopKey = k]
  <2>10. Len(r.vs.iterateset) # 0 /\ lastTracker(w) = r.vs.iterateset[Len(r.vs.iterateset)]
         BY <1>1, <2>7 DEF lastTracker
  <2>11. new \in Trackers /\ vs = withLast(r.vs, new)
         BY <2>3, <2>7, <2>10, AddKeyLast
  <2>12. /\ new.iteratedKeys = tr.iteratedKeys \cup {k} /\ new.writeset = tr.writeset
         /\ new.earlyStopKey = k
         BY <1>1 DEF Trackers
  <2> HIDE DEF new
  <2>13. vs \in Views
         BY <2>7, <2>10, <2>11, WithLast
  <2> HIDE DEF vs
  <2>14. CASE r.abort = 0 /\ r.value # nil /\ w.left = 1
    <3>1. u = endIteration(w, vs, rd)
          BY <2>6, <2>14 DEF afterRead, vs
    <3>3. /\ u \in RunStates /\ u.pc = w.pc + 1 /\ u.next = nil /\ u.vs = vs
          /\ u.read = rd
          BY <2>0, <2>13, <3>1, EndIterationType
    <3>4. Cardinality(new.iteratedKeys) = tx[w.pc].limit
      <4> DEFINE I == tr.iteratedKeys
      <4>1. I \in SUBSET Keys /\ k \in Keys \ I /\ new.iteratedKeys = I \cup {k}
            BY <1>1, <2>3, <2>12
      <4>2. w.left + Cardinality(I) = tx[w.pc].limit /\ Cardinality(I) \in Nat
            BY <1>3, <1>4
      <4> HIDE DEF I
      <4>3. Cardinality(I \cup {k}) = Cardinality(I) + 1
            BY <4>1, KeyCounts
      <4> QED BY <2>14, <4>1, <4>2, <4>3
    <3>5. ASSUME NEW s \in Contents, agrees(s, w), readsFrom(s, r.vs.readset)
          PROVE  u.read = Serial!readAlso(run(s, tx)[w.pc - 1], new.iteratedKeys)
      <4>1. rd = Serial!readAlso(run(s, tx)[w.pc - 1], lastTracker(w).iteratedKeys \cup {k})
            BY <2>3, <2>5, <2>14, <3>5, ServedRead DEF rd
      <4> QED BY <2>12, <3>3, <4>1
    <3>6. \A s \in Contents : readsFrom(s, r.vs.readset) => readsFrom(s, w.vs.readset)
          BY <2>5, <2>14 DEF isRead
    <3>7. new.earlyStopKey # nil
          BY <2>3, <2>12, KeysAssumption DEF nil
    <3>8. u.vs = withLast(r.vs, new) /\ new.writeset = w.vs.writeset
          BY <1>3, <2>11, <2>12, <3>3
    <3>9. \A s \in Contents : agrees(s, w) /\ readsFrom(s, r.vs.readset) =>
              u.read = Serial!readAlso(run(s, tx)[w.pc - 1], new.iteratedKeys)
          BY <3>5
    <3>10. running(tx, u)
          BY <2>7, <2>11, <3>3, <3>4, <3>6, <3>7, <3>8, <3>9, StepEnd
    <3> QED BY <3>3, <3>10 DEF u
  <2>15. CASE r.abort = 0 /\ r.value # nil /\ w.left # 1
    <3>1. u = [w EXCEPT !.vs = vs, !.read = rd, !.next = k + 1, !.left = @ - 1]
          BY <2>6, <2>15 DEF afterRead, vs
    <3>2. w.left - 1 \in Nat /\ k + 1 \in Nat
          BY <1>1, <2>3
    <3>3. /\ u \in RunStates /\ u.pc = w.pc /\ u.read = rd /\ u.items = w.items
          /\ u.left = w.left - 1 /\ u.next = k + 1 /\ u.vs = vs
          BY <2>0, <2>13, <3>1, <3>2 DEF RunStates
    <3>4. running(tx, u)
          BY <2>3, <2>5, <2>15, <3>3, StepServe DEF vs, rd
    <3> QED BY <3>3, <3>4 DEF u
  <2> QED BY <2>7, <2>8, <2>9, <2>14, <2>15
<1> QED BY <1>5, <1>6

\* Every access of a transaction keeps the execution on the serial one.
LEMMA StepAccess ==
    ASSUME Basics, Latest, StoreTypes, txWritesetKeys \in [Tasks -> SUBSET Keys],
           NEW t \in Tasks, block[t] \in Transactions, NEW w \in RunStates,
           running(block[t], w), w.pc \in DOMAIN block[t]
    PROVE  LET u == accessStep(t, w)
           IN  u \in RunStates /\ (u.pc # 0 => running(block[t], u))
<1> DEFINE tx == block[t]
           i == tx[w.pc]
           u == accessStep(t, w)
<1>1. /\ w.vs \in Views /\ w.vs.writeset \in Writes /\ w.pc \in Nat /\ w.pc + 1 \in Nat
      /\ w.read \in Contents
      BY DEF RunStates, Views
<1>2. i \in Serial!Instructions
      BY DEF Transactions
<1>3. CASE w.next # nil
  <2>1. u = IterNextStep(t, w)
        BY <1>3 DEF accessStep
  <2> QED BY <1>3, <2>1, StepNext
<1>4. CASE w.next = nil /\ i.op = "get"
  <2> DEFINE r == Get(w.vs, t, i.key)
  <2>1. i.key \in Keys
        BY <1>2, <1>4 DEF Serial!Instructions
  <2>2. isRead(w.vs, i.key, r)
        BY <1>1, <2>1, GetReads
  <2>3. u = afterRead(w, r, [w EXCEPT !.pc = @ + 1, !.vs = r.vs, !.read[i.key] = r.value])
        BY <1>4 DEF accessStep, GetStep
  <2> HIDE DEF r, u
  <2>4. r.vs \in Views /\ r.value \in Nat /\ r.abort \in Nat
        BY <2>2 DEF isRead
  <2>5. CASE r.abort # 0
    <3>1. u = [w EXCEPT !.pc = 0, !.vs = r.vs, !.left = r.abort]
          BY <2>3, <2>5 DEF afterRead
    <3>2. u \in RunStates /\ u.pc = 0
          BY <2>4, <3>1 DEF RunStates
    <3> QED BY <3>2 DEF u
  <2>6. CASE r.abort = 0
    <3> DEFINE rd == [w.read EXCEPT ![i.key] = r.value]
    <3>1. u = [w EXCEPT !.pc = w.pc + 1, !.vs = r.vs, !.read = rd]
          BY <2>3, <2>6 DEF afterRead
    <3>2. rd \in Contents
          BY <1>1, <2>1, <2>4 DEF Contents
    <3> HIDE DEF rd
    <3>3. /\ u \in RunStates /\ u.next = nil /\ u.pc = w.pc + 1 /\ u.vs = r.vs
          /\ u.read = rd
          BY <1>1, <1>4, <2>4, <3>1, <3>2 DEF RunStates
    <3>4. running(tx, u)
          BY <1>4, <2>2, <2>6, <3>3, StepGet DEF rd
    <3> QED BY <3>3, <3>4 DEF u
  <2> QED BY <2>5, <2>6
<1>5. CASE w.next = nil /\ i.op = "iter"
  <2>1. u = IterStep(t, w, i.limit)
        BY <1>5 DEF accessStep
  <2> DEFINE tr == NewIterationTracker(w.vs)
             vs == [w.vs EXCEPT !.iterateset = Append(@, tr)]
             items == CollectIteratorItems(t) \cup DOMAIN w.vs.writeset
                        \cup DOMAIN w.vs.readset
  <2>2. tr \in Trackers
        BY <1>1 DEF NewIterationTracker, Trackers, nil
  <2>3. vs \in Views
    <3> HIDE DEF tr
    <3>1. w.vs.iterateset \in Seq(Trackers)
          BY <1>1 DEF Views
    <3>2. Append(w.vs.iterateset, tr) \in Seq(Trackers)
          BY <2>2, <3>1
    <3> QED BY <1>1, <3>2 DEF Views
  <2>4. items \in SUBSET Keys
    <3>1. DOMAIN w.vs.writeset \in SUBSET Keys /\ DOMAIN w.vs.readset \in SUBSET Keys
          BY <1>1, PartialType DEF Views, Reads, Writes
    <3>2. \A j \in 1..(t - 1) : j \in Tasks
          BY DEF StoreTypes
    <3>3. CollectIteratorItems(t) \in SUBSET Keys
          BY <3>2 DEF CollectIteratorItems
    <3> QED BY <3>1, <3>3
  <2>5. u = [w EXCEPT !.vs = vs, !.items = items, !.next = 1, !.left = i.limit]
        BY <2>1 DEF IterStep, iterator
  <2>6. i.limit \in Nat
        BY <1>2, <1>5 DEF Serial!Instructions
  <2>7. DOMAIN w.vs.writeset \subseteq items /\ DOMAIN w.vs.readset \subseteq items
        OBVIOUS
  <2> HIDE DEF u, items, vs
  <2>8. /\ u \in RunStates /\ u.pc = w.pc /\ u.read = w.read /\ u.next = 1
        /\ u.left = i.limit /\ u.items = items /\ u.vs = vs
        BY <2>3, <2>4, <2>5, <2>6 DEF RunStates
  <2>9. running(tx, u)
        BY <1>5, <2>7, <2>8, StepIter DEF vs
  <2> QED BY <2>8, <2>9 DEF u
<1>6. ASSUME w.next = nil, NEW k \in Keys, NEW v \in Nat, u = WriteStep(w, k, v),
             \/ i.op = "set" /\ k = Serial!written(i, w.read) /\ v = w.read[i.of] + 1
             \/ i.op = "del" /\ k = i.key /\ v = nil
      PROVE  u \in RunStates /\ running(tx, u)
  <2> HIDE DEF u
  <2> DEFINE vs == [w.vs EXCEPT !.writeset = put(w.vs.writeset, k, v)]
  <2>1. put(w.vs.writeset, k, v) \in Writes
        BY <1>1, <1>6, PutType DEF Writes
  <2>2. vs \in Views
        BY <1>1, <2>1 DEF Views
  <2>3. u = [w EXCEPT !.pc = w.pc + 1, !.vs = vs]
        BY <1>6 DEF WriteStep, setValue
  <2> HIDE DEF vs
  <2>4. /\ u \in RunStates /\ u.next = nil /\ u.pc = w.pc + 1 /\ u.read = w.read
        /\ u.vs = vs
        BY <1>1, <1>6, <2>2, <2>3 DEF RunStates
  <2>5. running(tx, u)
        BY <1>6, <2>4, StepWrite DEF vs
  <2> QED BY <2>4, <2>5
<1>7. CASE w.next = nil /\ i.op = "set"
  <2>1. i.of \in Keys /\ i.keys \in Keys \X Keys
        BY <1>2, <1>7 DEF Serial!Instructions
  <2>2. w.read[i.of] \in Nat
        BY <1>1, <2>1 DEF Contents
  <2>3. Serial!written(i, w.read) \in Keys /\ w.read[i.of] + 1 \in Nat
    <3> HIDE DEF i
    <3>1. w.read[i.of] % 2 \in {0, 1}
          BY <2>2
    <3> QED BY <2>1, <2>2, <3>1 DEF Serial!written
  <2>4. u = WriteStep(w, Serial!written(i, w.read), w.read[i.of] + 1)
        BY <1>7 DEF accessStep
  <2> QED BY <1>6, <1>7, <2>3, <2>4
<1>8. CASE w.next = nil /\ i.op = "del"
  <2>1. i.key \in Keys
        BY <1>2, <1>8 DEF Serial!Instructions
  <2>2. u = WriteStep(w, i.key, nil)
        BY <1>8 DEF accessStep
  <2> QED BY <1>6, <1>8, <2>1, <2>2 DEF nil
<1>9. i.op \in {"get", "iter", "set", "del"}
      BY <1>2 DEF Serial!Instructions
<1> QED BY <1>3, <1>4, <1>5, <1>7, <1>8, <1>9

-----------------------------------------------------------------------------
(***************************************************************************)
(* The beginning and the end of an execution.                              *)
(***************************************************************************)
\* deliverTx begins where the serial execution does.
LEMMA RunStarts ==
    ASSUME Basics, NEW tx \in Transactions, NEW w,
           w = [at |-> "run", pc |-> 1, read |-> Serial!nothingRead,
                vs |-> NewVersionIndexedStore, items |-> {}, next |-> nil, left |-> 0]
    PROVE  w \in RunStates /\ running(tx, w)
<1>1. empty \in Reads /\ empty \in Writes /\ empty \in Seq(Trackers) /\ Len(empty) = 0
  <2>1. empty \in Reads /\ empty \in Writes
        BY EmptyType DEF Reads, Writes
  <2> QED BY <2>1 DEF empty
<1>2. NewVersionIndexedStore \in Views
      BY <1>1 DEF NewVersionIndexedStore, Views
<1>3. w \in RunStates
  <2>1. Serial!nothingRead \in Contents
        BY DEF Serial!nothingRead, Contents
  <2> QED BY <1>2, <2>1 DEF RunStates, nil
<1>4. w.pc = 1 /\ w.read = Serial!nothingRead /\ w.next = nil /\ w.vs.writeset = empty
      BY DEF NewVersionIndexedStore
<1>5. ASSUME NEW s \in Contents PROVE follows(s, tx, w)
  <2>1. isRun(s, tx, run(s, tx)) /\ Len(tx) \in Nat
        BY RunExists DEF Transactions
  <2>2. run(s, tx)[0] = [store |-> s, read |-> Serial!nothingRead] /\ run(s, tx)[0] \in States
        BY <2>1 DEF isRun
  <2>3. over(s, w.vs.writeset) = s
        BY <1>4, OverEmpty
  <2>4. w.pc - 1 = 0
        BY <1>4
  <2>5. run(s, tx)[w.pc - 1] = [store |-> over(s, w.vs.writeset), read |-> w.read]
        BY ONLY <1>4, <2>2, <2>3, <2>4
  <2>6. run(s, tx)[w.pc - 1] \in States
        BY ONLY <2>2, <2>4
  <2> QED BY ONLY s \in Contents, <1>3, <1>4, <2>5, <2>6, FollowsBetween
<1>6. w.pc \in 1..(Len(tx) + 1)
      BY <1>4 DEF Transactions
<1> QED BY <1>3, <1>4, <1>5, <1>6 DEF running

\* It ends with the result of the serial execution on any contents that have
\* what was read.
LEMMA RunEnds ==
    ASSUME Basics, NEW tx \in Transactions, NEW w \in RunStates, running(tx, w),
           w.pc \notin DOMAIN tx
    PROVE  records(tx, w.vs.readset, w.vs.iterateset, w.vs.writeset, w.read)
<1>1. Len(tx) \in Nat /\ DOMAIN tx = 1..Len(tx) /\ w.pc \in 1..(Len(tx) + 1) /\ w.pc \in Nat
      BY DEF Transactions, running, RunStates
<1>2. w.pc = Len(tx) + 1
      BY <1>1
<1>3. w.next = nil
      BY <1>1, <1>2 DEF running, iterating
<1>4. ASSUME NEW s \in Contents, readsFrom(s, w.vs.readset),
             iteratesOver(s, w.vs.iterateset, Len(w.vs.iterateset))
      PROVE  Serial!deliverTx(s, tx) = [store |-> over(s, w.vs.writeset), read |-> w.read]
  <2>1. follows(s, tx, w)
        BY <1>3, <1>4 DEF running, agrees, ended
  <2>2. isRun(s, tx, run(s, tx))
        BY RunExists
  <2>3. w.pc - 1 = Len(tx) /\ Len(tx) \in 0..Len(tx)
        BY <1>1, <1>2
  <2>4. run(s, tx)[w.pc - 1] = Serial!deliverTx(s, tx) /\ run(s, tx)[w.pc - 1] \in States
        BY <2>2, <2>3 DEF isRun
  <2>5. run(s, tx)[w.pc - 1] = [store |-> over(s, w.vs.writeset), read |-> w.read]
        BY <1>3, <2>1, <2>4, FollowsBetween
  <2> QED BY <2>4, <2>5
<1> QED BY <1>4 DEF records
=============================================================================
