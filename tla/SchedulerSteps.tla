--------------------------- MODULE SchedulerSteps ---------------------------
(***************************************************************************)
(* The steps that write and check keep the scheduler's invariant.          *)
(***************************************************************************)
EXTENDS SchedulerInvariant, TLAPS

\* The item that a read finds.
LEMMA LatestItem ==
    ASSUME Latest, NEW i \in 1..(n + 1), NEW k \in Keys
    PROVE  LET j == GetLatestBeforeIndex(i, k)
           IN  /\ j \in 0..(i - 1)
               /\ j # 0 => mv[j][k] # absent
               /\ \A m \in 1..(i - 1) : m > j => mv[m][k] = absent
               /\ latestValue(i, k) \in Nat
BY DEF Latest

\* The domain and the values of a partial map.
LEMMA DomainType ==
    ASSUME NEW V, NEW f \in Partial(V)
    PROVE  DOMAIN f \in SUBSET Keys /\ \A k \in DOMAIN f : f[k] \in V
BY DEF Partial

\* The empty map and the empty sequence of trackers.
LEMMA EmptySets == empty \in Reads /\ empty \in Seq(Trackers)
<1>1. DOMAIN empty = {} /\ empty \in [{} -> {<<v>> : v \in Nat}]
      BY DEF empty
<1>2. {} \in SUBSET Keys
      OBVIOUS
<1>3. empty \in Reads
      BY <1>1, <1>2, Zenon DEF Reads, Partial
<1> QED BY <1>3 DEF empty

-----------------------------------------------------------------------------
(***************************************************************************)
(* The contents before a task.                                             *)
(***************************************************************************)
\* The item read is the last one: it is told by what is known of it.
LEMMA LatestUnique ==
    ASSUME StoreTypes, Latest, NEW i \in 1..(n + 1), NEW k \in Keys, NEW j \in 0..(i - 1),
           j # 0 => mv[j][k] # absent,
           \A m \in 1..(i - 1) : m > j => mv[m][k] = absent
    PROVE  GetLatestBeforeIndex(i, k) = j
<1> DEFINE l == GetLatestBeforeIndex(i, k)
<1>1. /\ l \in 0..(i - 1)
      /\ l # 0 => mv[l][k] # absent
      /\ \A m \in 1..(i - 1) : m > l => mv[m][k] = absent
      BY LatestItem
<1> HIDE DEF l
<1>2. i \in Nat /\ j \in Nat /\ l \in Nat
      BY <1>1 DEF StoreTypes
<1>3. CASE l < j
      BY <1>1, <1>2, <1>3
<1>4. CASE j < l
      BY <1>1, <1>2, <1>4
<1> QED BY <1>2, <1>3, <1>4 DEF l

\* Before the first task the contents are those of the parent store.
LEMMA BeforeFirst ==
    ASSUME StoreTypes, Latest PROVE before(1) = store
<1>1. ASSUME NEW k \in Keys PROVE latestValue(1, k) = store[k]
  <2>1. 1 \in 1..(n + 1) /\ 0 \in 0..(1 - 1)
        BY DEF StoreTypes
  <2>2. GetLatestBeforeIndex(1, k) = 0
        BY <2>1, LatestUnique
  <2> QED BY <2>2 DEF latestValue
<1> QED BY <1>1 DEF before, StoreTypes, Contents

\* After a task they are those before it, with what the task wrote.
LEMMA LatestNext ==
    ASSUME StoreTypes, Latest, NEW t \in Tasks, NEW k \in Keys
    PROVE  latestValue(t + 1, k)
             = IF mv[t][k] # absent THEN mv[t][k].value ELSE latestValue(t, k)
<1>1. t \in Nat \ {0} /\ t + 1 \in 1..(n + 1) /\ t \in 1..(n + 1) /\ t <= n /\ n \in Nat
      BY DEF StoreTypes
<1>2. CASE mv[t][k] # absent
  <2>1. t \in 0..(t + 1 - 1) /\ \A m \in 1..(t + 1 - 1) : ~(m > t)
        BY <1>1
  <2>2. GetLatestBeforeIndex(t + 1, k) = t
        BY <1>1, <1>2, <2>1, LatestUnique
  <2> QED BY <1>1, <1>2, <2>2 DEF latestValue
<1>3. CASE mv[t][k] = absent
  <2> DEFINE l == GetLatestBeforeIndex(t, k)
  <2>1. /\ l \in 0..(t - 1)
        /\ l # 0 => mv[l][k] # absent
        /\ \A m \in 1..(t - 1) : m > l => mv[m][k] = absent
        BY <1>1, LatestItem
  <2> HIDE DEF l
  <2>2. \A m \in 1..(t + 1 - 1) : m > l => mv[m][k] = absent
        BY <1>1, <1>3, <2>1
  <2>3. l \in 0..(t + 1 - 1)
        BY <1>1, <2>1
  <2>4. GetLatestBeforeIndex(t + 1, k) = l
        BY <1>1, <2>1, <2>2, <2>3, LatestUnique
  <2> QED BY <1>3, <2>4 DEF latestValue, l
<1> QED BY <1>2, <1>3

\* They are contents.
LEMMA BeforeType ==
    ASSUME StoreTypes, Latest, NEW i \in 1..(n + 1) PROVE before(i) \in Contents
BY LatestItem DEF before, Contents

\* They depend on the lower tasks only.
LEMMA BeforeSame ==
    ASSUME StoreTypes, Latest, store' = store, NEW i \in 1..(n + 1),
           \A j \in 1..(i - 1) : mv'[j] = mv[j]
    PROVE  before(i)' = before(i) /\ \A k \in Keys : latestValue(i, k)' = latestValue(i, k)
<1>1. ASSUME NEW k \in Keys PROVE latestValue(i, k)' = latestValue(i, k)
  <2>1. GetLatestBeforeIndex(i, k)' = GetLatestBeforeIndex(i, k)
        BY DEF GetLatestBeforeIndex
  <2> DEFINE j == GetLatestBeforeIndex(i, k)
  <2>2. j \in 0..(i - 1)
        BY LatestItem
  <2>3. j # 0 => j \in 1..(i - 1)
        BY <2>2 DEF StoreTypes
  <2> HIDE DEF j
  <2> QED BY <2>1, <2>3 DEF latestValue, j
<1> QED BY <1>1 DEF before

\* A replay that succeeds says that an iteration over the contents serves the
\* keys that were served.
LEMMA ReplayServes ==
    ASSUME StoreTypes, Latest, NEW t \in Tasks, \A j \in 1..(t - 1) : owned(j),
           NEW tr \in Trackers, validateIterator(t, tr)
    PROVE  served(before(t), tr) = tr.iteratedKeys
<1> DEFINE own == tr.writeset
           cached == {k \in CollectIteratorItems(t) : GetLatestBeforeIndex(t, k) # 0}
                        \cup DOMAIN own
           met(k) == tr.earlyStopKey = nil \/ k <= tr.earlyStopKey
           live(k) == IF k \in DOMAIN own THEN own[k] # nil
                      ELSE k \in cached => latestValue(t, k) # nil
           replay == {k \in ParentKeys \cup cached : met(k) /\ live(k)}
<1>1. replay = tr.iteratedKeys
      BY DEF validateIterator
<1>2. tr.iteratedKeys \in SUBSET Keys /\ DOMAIN own \in SUBSET Keys
      BY DomainType DEF Trackers, Writes
<1>3. ASSUME NEW k \in Keys PROVE k \in replay <=> k \in served(before(t), tr)
  <2>1. k \in served(before(t), tr) <=>
          met(k) /\ (IF k \in DOMAIN own THEN own[k] ELSE latestValue(t, k)) # nil
        BY DEF served, over, before
  <2>2. GetLatestBeforeIndex(t, k) = 0 => latestValue(t, k) = store[k]
        BY DEF latestValue
  <2>3. GetLatestBeforeIndex(t, k) # 0 => k \in CollectIteratorItems(t)
    <3> DEFINE l == GetLatestBeforeIndex(t, k)
    <3>1. t \in 1..(n + 1)
          BY DEF StoreTypes
    <3>2. l \in 0..(t - 1) /\ (l # 0 => mv[l][k] # absent)
          BY <3>1, LatestItem
    <3> HIDE DEF l
    <3>3. l # 0 => l \in 1..(t - 1)
          BY <3>2 DEF StoreTypes
    <3>4. l # 0 => k \in txWritesetKeys[l]
          BY <3>2, <3>3 DEF owned
    <3> QED BY <3>3, <3>4 DEF CollectIteratorItems, l
  <2>4. k \in ParentKeys <=> store[k] # nil
        BY DEF ParentKeys
  <2> HIDE DEF met
  <2> QED BY <2>1, <2>2, <2>3, <2>4
<1>4. served(before(t), tr) \subseteq Keys
      BY DEF served
<1>5. replay \subseteq Keys
      BY <1>1, <1>2
<1> HIDE DEF replay
<1> QED BY <1>1, <1>3, <1>4, <1>5

\* Tasks that are clean have no estimates.
LEMMA CleanReads ==
    ASSUME Inv, Latest, NEW t \in Tasks, cleanBefore(t), NEW k \in Keys
    PROVE  ~latestIsEstimate(t, k)
<1> DEFINE l == GetLatestBeforeIndex(t, k)
<1>1. StoreTypes /\ t \in 1..(n + 1)
      BY DEF Inv, Types, StoreTypes
<1>2. l \in 0..(t - 1) /\ (l # 0 => mv[l][k] # absent)
      BY <1>1, LatestItem
<1> HIDE DEF l
<1>3. SUFFICES ASSUME l # 0 PROVE ~IsEstimate(mv[l][k])
      BY DEF latestIsEstimate, l
<1>4. l \in 1..(t - 1) /\ l \in Tasks
      BY <1>1, <1>2, <1>3 DEF StoreTypes
<1>5. clean(l) /\ execution(l)
      BY <1>4 DEF cleanBefore, Inv, Executions
<1>6. owned(l) /\ settled(l)
      BY <1>5 DEF clean, execution
<1>7. mv[l][k].kind = "value"
      BY <1>2, <1>3, <1>6 DEF owned, settled
<1> QED BY <1>7 DEF IsEstimate

\* The contents after a task that has ended: those before it, with its writes.
LEMMA BeforeNext ==
    ASSUME StoreTypes, Latest, NEW t \in Tasks, owned(t), settled(t),
           txWritesetKeys[t] \subseteq Keys
    PROVE  over(before(t), values(t)) = before(t + 1)
<1>1. ASSUME NEW k \in Keys
      PROVE  (IF k \in DOMAIN values(t) THEN values(t)[k] ELSE before(t)[k]) = latestValue(t + 1, k)
  <2>1. latestValue(t + 1, k)
          = IF mv[t][k] # absent THEN mv[t][k].value ELSE latestValue(t, k)
        BY LatestNext
  <2>2. k \in txWritesetKeys[t] <=> mv[t][k] # absent
        BY DEF owned, settled, absent
  <2> QED BY <2>1, <2>2 DEF values, before
<1> QED BY <1>1 DEF over, before

-----------------------------------------------------------------------------
(***************************************************************************)
(* Queues of tasks.                                                        *)
(***************************************************************************)
\* Taking the first task.
LEMMA QueueTail ==
    ASSUME NEW q, isQueue(q), q # <<>>
    PROVE  /\ isQueue(Tail(q)) /\ Head(q) \in Tasks /\ queued(q, Head(q))
           /\ ~queued(Tail(q), Head(q))
           /\ \A t : t # Head(q) => (queued(Tail(q), t) <=> queued(q, t))
<1> DEFINE L == Len(q)
           r == Tail(q)
<1>1. q \in Seq(Tasks) /\ L \in Nat \ {0} /\ DOMAIN q = 1..L /\ Head(q) = q[1]
      BY DEF isQueue
<1>2. r \in Seq(Tasks) /\ Len(r) = L - 1 /\ DOMAIN r = 1..(L - 1)
      BY <1>1
<1>3. \A i \in 1..(L - 1) : r[i] = q[i + 1] /\ i + 1 \in 1..L /\ i + 1 # 1
      BY <1>1
<1>4. \A i \in 1..L : i = 1 \/ (i - 1 \in 1..(L - 1) /\ r[i - 1] = q[i])
      BY <1>1
<1>5. \A i, j \in 1..L : q[i] = q[j] => i = j
      BY <1>1 DEF isQueue
<1>6. 1 \in 1..L
      BY <1>1
<1> HIDE DEF r, L
<1>7. isQueue(r)
  <2>1. ASSUME NEW i \in 1..(L - 1), NEW j \in 1..(L - 1), r[i] = r[j] PROVE i = j
    <3>1. i + 1 = j + 1
          BY <1>3, <1>5, <2>1
    <3> QED BY <1>1, <3>1
  <2> QED BY <1>2, <2>1 DEF isQueue
<1>8. q[1] \in Tasks /\ queued(q, q[1])
      BY <1>1, <1>6 DEF queued
<1>9. ~queued(r, q[1])
      BY <1>2, <1>3, <1>5, <1>6 DEF queued
<1>10. ASSUME NEW t, t # q[1] PROVE queued(r, t) <=> queued(q, t)
  <2>1. ASSUME NEW i \in 1..(L - 1), r[i] = t PROVE queued(q, t)
        BY <1>1, <1>3, <2>1 DEF queued
  <2>2. ASSUME NEW i \in 1..L, q[i] = t PROVE queued(r, t)
    <3>1. i - 1 \in 1..(L - 1) /\ r[i - 1] = t
          BY <1>4, <1>10, <2>2
    <3> QED BY <1>2, <3>1 DEF queued
  <2> QED BY <1>1, <1>2, <2>1, <2>2 DEF queued
<1> QED BY <1>1, <1>7, <1>8, <1>9, <1>10 DEF r

\* Adding one.
LEMMA QueueAppend ==
    ASSUME NEW q, isQueue(q), NEW t \in Tasks, ~queued(q, t)
    PROVE  /\ isQueue(Append(q, t))
           /\ \A u : queued(Append(q, t), u) <=> queued(q, u) \/ u = t
<1> DEFINE L == Len(q)
           r == Append(q, t)
<1>1. q \in Seq(Tasks) /\ L \in Nat /\ DOMAIN q = 1..L
      BY DEF isQueue
<1>2. r \in Seq(Tasks) /\ DOMAIN r = 1..(L + 1) /\ r[L + 1] = t
      BY <1>1
<1>3. \A i \in 1..L : r[i] = q[i] /\ i \in 1..(L + 1)
      BY <1>1
<1>4. \A i \in 1..(L + 1) : i = L + 1 \/ i \in 1..L
      BY <1>1
<1>5. \A i \in 1..L : q[i] # t
      BY <1>1 DEF queued
<1>6. L + 1 \in 1..(L + 1)
      BY <1>1
<1>7. \A i, j \in 1..L : q[i] = q[j] => i = j
      BY <1>1 DEF isQueue
<1> HIDE DEF r, L
<1>8. isQueue(r)
  <2>1. ASSUME NEW i \in 1..(L + 1), NEW j \in 1..(L + 1), r[i] = r[j] PROVE i = j
        BY <1>2, <1>3, <1>4, <1>5, <1>7, <2>1
  <2> QED BY <1>2, <2>1 DEF isQueue
<1>9. \A u : queued(r, u) <=> queued(q, u) \/ u = t
      BY <1>1, <1>2, <1>3, <1>4, <1>6 DEF queued
<1> QED BY <1>8, <1>9 DEF r

\* The tasks from one on.
LEMMA QueueFrom ==
    ASSUME StoreTypes, NEW f \in Tasks
    PROVE  /\ isQueue(tasksFrom(f))
           /\ \A t \in Tasks : queued(tasksFrom(f), t) <=> t >= f
<1> DEFINE L == n - f + 1
           q == [i \in 1..L |-> f + i - 1]
<1>1. n \in Nat /\ f \in Nat /\ f \in 1..n /\ L \in Nat
      BY DEF StoreTypes
<1>2. \A i \in 1..L : q[i] \in 1..n
      BY <1>1
<1>3. q \in Seq(Tasks) /\ DOMAIN q = 1..L
      BY <1>1, <1>2 DEF StoreTypes
<1>4. \A i, j \in 1..L : q[i] = q[j] => i = j
      BY <1>1
<1>5. ASSUME NEW t \in Tasks PROVE queued(q, t) <=> t >= f
  <2>1. t \in 1..n
        BY DEF StoreTypes
  <2>2. ASSUME t >= f PROVE queued(q, t)
    <3>1. t - f + 1 \in 1..L /\ q[t - f + 1] = t
          BY <1>1, <2>1, <2>2
    <3> QED BY <1>3, <3>1 DEF queued
  <2>3. ASSUME queued(q, t) PROVE t >= f
        BY <1>1, <1>3, <2>3 DEF queued
  <2> QED BY <2>2, <2>3
<1>6. tasksFrom(f) = q
      BY DEF tasksFrom
<1> HIDE DEF q, L
<1> QED BY <1>3, <1>4, <1>5, <1>6 DEF isQueue

-----------------------------------------------------------------------------
(***************************************************************************)
(* A step of one task.                                                     *)
(***************************************************************************)
sameTask(u) ==
    /\ worker'[u] = worker[u] /\ mv'[u] = mv[u]
    /\ txWritesetKeys'[u] = txWritesetKeys[u] /\ txReadSets'[u] = txReadSets[u]
    /\ txIterateSets'[u] = txIterateSets[u]
    /\ status'[u] = status[u] /\ response'[u] = response[u]

\* A step of the goroutine of t.
step(t) ==
    /\ block' = block /\ store' = store /\ phase' = phase
    /\ responses' = responses /\ synchronous' = synchronous
    /\ \A u \in Tasks : u # t => sameTask(u)

\* t is not in the queue, or was the first of it.
taken(t) ==
    \/ queue' = queue /\ ~queued(queue, t)
    \/ queue # <<>> /\ Head(queue) = t /\ queue' = Tail(queue)

\* A task that some goroutine has is not queued.
LEMMA BusyTask ==
    ASSUME Inv, NEW t \in Tasks, worker[t].at # "idle"
    PROVE  /\ worker[t] # idle /\ ~queued(queue, t)
           /\ phase = "execute" => status[t] # "validated"
           /\ phase = "validate" => ~queued(toExecute, t)
           /\ phase = (IF worker[t].at \in {"run", "flush"} THEN "execute" ELSE "validate")
<1>1. worker[t] # idle
      BY DEF idle
<1>2. workerTyped(worker[t]) /\ Queues /\ phase \in {"execute", "validate", "done"}
      BY DEF Inv, Goroutines, Types
<1>3. phase = (IF worker[t].at \in {"run", "flush"} THEN "execute" ELSE "validate")
      BY <1>2 DEF workerTyped
<1> QED BY <1>1, <1>2, <1>3 DEF Queues

\* The transaction of a task.
LEMMA TaskFacts ==
    ASSUME Inv, NEW t \in Tasks
    PROVE  /\ StoreTypes /\ block[t] \in Transactions /\ execution(t) /\ workerTyped(worker[t])
           /\ mv[t] \in [Keys -> Items] /\ txWritesetKeys[t] \in SUBSET Keys
           /\ txReadSets[t] \in Reads /\ txIterateSets[t] \in Seq(Trackers)
           /\ status[t] \in Statuses /\ response[t] \in Responses
BY DEF Inv, Types, Executions, Goroutines, StoreTypes, Tasks

\* What is known of the goroutine that has a task.
LEMMA WorkerFacts ==
    ASSUME Inv, NEW t \in Tasks
    PROVE  /\ worker[t].at = "run" =>
                 worker[t] \in RunStates /\ (worker[t].pc # 0 => running(block[t], worker[t]))
           /\ worker[t].at = "flush" => worker[t] \in FlushStates /\ flushing(t, worker[t])
           /\ worker[t].at = "check" => worker[t] \in CheckStates
           /\ worker[t].at = "invalidate" => worker[t] \in InvalidateStates
           /\ worker[t].at = "dependencies" =>
                 worker[t] = [at |-> "dependencies", left |-> worker[t].left]
           /\ worker[t].at # "flush" => owned(t)
           /\ worker[t].at \in {"idle", "check"} /\ status[t] \in {"executed", "validated"} =>
                 settled(t)
<1> DEFINE w == worker[t]
<1>1. workerTyped(w) /\ execution(t)
      BY TaskFacts
<1>2. /\ w.at = "run" => w \in RunStates
      /\ w.at = "flush" => w \in FlushStates
      /\ w.at = "check" => w \in CheckStates
      /\ w.at = "invalidate" => w \in InvalidateStates
      /\ w.at = "dependencies" => w = [at |-> "dependencies", left |-> w.left]
  <2> HIDE DEF w
  <2> QED BY ONLY <1>1 DEF workerTyped
<1>3. /\ w.at = "run" /\ w.pc # 0 => running(block[t], w)
      /\ w.at = "flush" => flushing(t, w)
      /\ w.at # "flush" => owned(t)
      /\ w.at \in {"idle", "check"} /\ status[t] \in {"executed", "validated"} => settled(t)
      BY ONLY <1>1 DEF execution
<1> QED BY ONLY <1>2, <1>3

\* A recorded read is of a key, and has one value.
LEMMA ReadKeys ==
    ASSUME Inv, NEW t \in Tasks, NEW k \in DOMAIN txReadSets[t]
    PROVE  k \in Keys /\ txReadSets[t][k] \in {<<v>> : v \in Nat}
<1>1. txReadSets[t] \in Partial({<<v>> : v \in Nat})
      BY TaskFacts DEF Reads
<1> QED BY <1>1, DomainType

\* The other executions are where they were.
LEMMA ExecutionSame ==
    ASSUME NEW u, block' = block, sameTask(u), execution(u) PROVE execution(u)'
<1>1. flushing(u, worker[u]) => flushing(u, worker[u])'
      BY DEF sameTask, flushing
<1>2. owned(u) => owned(u)'
      BY DEF sameTask, owned
<1>3. settled(u) => settled(u)'
      BY DEF sameTask, settled, values
<1> QED BY <1>1, <1>2, <1>3 DEF sameTask, execution

\* The queue of a step.
LEMMA TakenQueue ==
    ASSUME NEW t \in Tasks, isQueue(queue), taken(t), Tasks' = Tasks
    PROVE  /\ isQueue(queue)' /\ ~queued(queue', t)
           /\ \A u : u # t => (queued(queue', u) <=> queued(queue, u))
<1>1. isQueue(queue)' <=> isQueue(queue')
      BY DEF isQueue
<1>2. CASE queue' = queue /\ ~queued(queue, t)
      BY <1>1, <1>2
<1>3. CASE queue # <<>> /\ Head(queue) = t /\ queue' = Tail(queue)
  <2>1. isQueue(Tail(queue)) /\ ~queued(Tail(queue), t)
        BY <1>3, QueueTail
  <2>2. \A u : u # t => (queued(Tail(queue), u) <=> queued(queue, u))
        BY <1>3, QueueTail
  <2> QED BY <1>1, <1>3, <2>1, <2>2
<1> QED BY <1>2, <1>3 DEF taken

\* A step of an execution keeps the invariant when it does for its task.
LEMMA ExecuteStep ==
    ASSUME Inv, Latest, NEW t \in Tasks, step(t), phase = "execute", taken(t),
           toExecute' = toExecute, Types', status'[t] # "validated",
           workerTyped(worker[t])', execution(t)'
    PROVE  Inv'
<1>1. /\ Tasks' = Tasks /\ n' = n /\ StoreTypes /\ phase' = "execute" /\ store' = store
      /\ block' = block /\ \A u \in Tasks : u # t => sameTask(u)
      BY DEF step, Tasks, n, Inv, Types
<1>2. Goroutines'
  <2>1. ASSUME NEW u \in Tasks, u # t PROVE workerTyped(worker[u])'
    <3>1. workerTyped(worker[u]) /\ worker'[u] = worker[u] /\ phase' = phase
          BY <1>1, <2>1 DEF Inv, Goroutines, sameTask, step
    <3> QED BY <3>1 DEF workerTyped
  <2> QED BY <1>1, <2>1 DEF Goroutines
<1>3. Executions'
  <2>1. ASSUME NEW u \in Tasks, u # t PROVE execution(u)'
        BY <1>1, <2>1, ExecutionSame DEF Inv, Executions
  <2> QED BY <1>1, <2>1 DEF Executions
<1>4. /\ isQueue(queue)' /\ ~queued(queue', t)
      /\ \A u : u # t => (queued(queue', u) <=> queued(queue, u))
      BY <1>1, TakenQueue DEF Inv, Queues
<1>5. Queues'
  <2>1. isQueue(toExecute)'
        BY <1>1 DEF Inv, Queues, isQueue
  <2>2. ASSUME NEW u \in Tasks, queued(queue', u) PROVE worker'[u] = idle
        BY <1>1, <1>4, <2>2 DEF Inv, Queues, sameTask
  <2>3. ASSUME NEW u \in Tasks, worker'[u] # idle \/ (~synchronous' /\ queued(queue', u))
        PROVE  status'[u] # "validated"
        BY <1>1, <1>4, <2>3 DEF Inv, Queues, sameTask, step
  <2>4. responses' = <<>>
        BY DEF Inv, Queues, step
  <2>5. (\A u \in Tasks : queued(queue, u) => worker[u] = idle)'
        BY <1>1, <2>2
  <2>6. (\A u \in Tasks : worker[u] # idle \/ (~synchronous /\ queued(queue, u)) =>
             status[u] # "validated")'
        BY <1>1, <2>3
  <2>7. (\E u \in Tasks : status[u] # "validated")'
        BY <1>1
  <2> QED BY <1>1, <1>4, <2>1, <2>4, <2>5, <2>6, <2>7 DEF Queues
<1>6. Validations'
  <2>1. ASSUME NEW u \in Tasks, \A j \in 1..u : status'[j] = "validated"
        PROVE  consistent(u)'
    <3>1. u \in 1..n /\ t \in 1..n /\ n \in Nat /\ Tasks = 1..n
          BY <1>1 DEF StoreTypes
    <3>2. t \notin 1..u
          BY <2>1
    <3>3. \A j \in 1..u : j \in Tasks /\ j # t
          BY <3>1, <3>2
    <3>4. \A j \in 1..u : sameTask(j)
          BY <1>1, <3>3
    <3>5. u \in 1..u /\ u \in 1..(n + 1) /\ \A j \in 1..(u - 1) : j \in 1..u
          BY <3>1
    <3>6. \A j \in 1..u : status[j] = "validated"
          BY <2>1, <3>4 DEF sameTask
    <3>7. consistent(u)
          BY <1>1, <3>6 DEF Inv, Validations
    <3>8. \A j \in 1..(u - 1) : mv'[j] = mv[j]
          BY <3>4, <3>5 DEF sameTask
    <3>9. before(u)' = before(u)
          BY <1>1, <3>5, <3>8, BeforeSame
    <3>10. txReadSets'[u] = txReadSets[u] /\ txIterateSets'[u] = txIterateSets[u]
           BY <3>4, <3>5 DEF sameTask
    <3> QED BY <3>7, <3>9, <3>10 DEF consistent
  <2>2. (\A u \in Tasks : (\A j \in 1..u : status[j] = "validated") => consistent(u))'
        BY <1>1, <2>1
  <2> QED BY <1>1, <2>2 DEF Validations
<1> QED BY <1>2, <1>3, <1>5, <1>6 DEF Inv

\* A step of a validation keeps the invariant when it does for its task, and
\* when it leaves a task that is still clean with the same items.
LEMMA ValidateStep ==
    ASSUME Inv, Latest, NEW t \in Tasks, step(t), phase = "validate", taken(t),
           \/ toExecute' = toExecute /\ ~queued(toExecute, t)
           \/ /\ toExecute' = Append(toExecute, t) /\ ~queued(toExecute, t)
              /\ worker'[t] = idle /\ status'[t] = "pending",
           Types', workerTyped(worker[t])', execution(t)',
           clean(t)' => clean(t) /\ mv'[t] = mv[t],
           cleanBefore(t) /\ before(t)' = before(t)
              /\ (\A k \in Keys : latestValue(t, k)' = latestValue(t, k)) => validation(t)'
    PROVE  Inv'
<1>1. /\ Tasks' = Tasks /\ n' = n /\ StoreTypes /\ phase' = "validate" /\ store' = store
      /\ block' = block /\ \A u \in Tasks : u # t => sameTask(u)
      BY DEF step, Tasks, n, Inv, Types
<1>2. Goroutines'
  <2>1. ASSUME NEW u \in Tasks, u # t PROVE workerTyped(worker[u])'
    <3>1. workerTyped(worker[u]) /\ worker'[u] = worker[u] /\ phase' = phase
          BY <1>1, <2>1 DEF Inv, Goroutines, sameTask, step
    <3> QED BY <3>1 DEF workerTyped
  <2> QED BY <1>1, <2>1 DEF Goroutines
<1>3. Executions'
  <2>1. ASSUME NEW u \in Tasks, u # t PROVE execution(u)'
        BY <1>1, <2>1, ExecutionSame DEF Inv, Executions
  <2> QED BY <1>1, <2>1 DEF Executions
<1>4. /\ isQueue(queue)' /\ ~queued(queue', t)
      /\ \A u : u # t => (queued(queue', u) <=> queued(queue, u))
      BY <1>1, TakenQueue DEF Inv, Queues
<1>5. /\ isQueue(toExecute)'
      /\ \A u : u # t => (queued(toExecute', u) <=> queued(toExecute, u))
      /\ queued(toExecute', t) => worker'[t] = idle /\ status'[t] = "pending"
  <2>1. isQueue(toExecute)' <=> isQueue(toExecute')
        BY <1>1 DEF isQueue
  <2>2. isQueue(toExecute)
        BY DEF Inv, Queues
  <2>3. CASE toExecute' = toExecute /\ ~queued(toExecute, t)
        BY <2>1, <2>2, <2>3
  <2>4. CASE /\ toExecute' = Append(toExecute, t) /\ ~queued(toExecute, t)
             /\ worker'[t] = idle /\ status'[t] = "pending"
    <3>1. isQueue(Append(toExecute, t))
          BY <2>2, <2>4, QueueAppend
    <3>2. \A u : queued(Append(toExecute, t), u) <=> queued(toExecute, u) \/ u = t
          BY <2>2, <2>4, QueueAppend
    <3> QED BY <2>1, <2>4, <3>1, <3>2
  <2> QED BY <2>3, <2>4
<1>6. Queues'
  <2>1. (\A u \in Tasks : queued(queue, u) => worker[u] = idle)'
        BY <1>1, <1>4 DEF Inv, Queues, sameTask
  <2>2. (\A u \in Tasks : queued(toExecute, u) =>
             worker[u] = idle /\ ~queued(queue, u) /\ status[u] = "pending")'
        BY <1>1, <1>4, <1>5 DEF Inv, Queues, sameTask
  <2>3. responses' = <<>>
        BY DEF Inv, Queues, step
  <2> QED BY <1>1, <1>4, <1>5, <2>1, <2>2, <2>3 DEF Queues
<1>7. Validations'
  <2>1. ASSUME NEW u \in Tasks PROVE validation(u)'
    <3>1. u \in 1..n /\ t \in 1..n /\ n \in Nat /\ Tasks = 1..n
          BY <1>1 DEF StoreTypes
    <3>2. u \in 1..(n + 1) /\ \A j \in 1..(u - 1) : j \in Tasks /\ j # u
          BY <3>1
    <3>3. \A j \in 1..(u - 1) : clean(j)' => clean(j) /\ mv'[j] = mv[j]
          BY <1>1, <3>2 DEF sameTask, clean
    <3> SUFFICES ASSUME cleanBefore(u)' PROVE validation(u)'
        BY DEF validation
    <3>4. cleanBefore(u) /\ \A j \in 1..(u - 1) : mv'[j] = mv[j]
          BY <3>3 DEF cleanBefore
    <3>5. before(u)' = before(u) /\ \A k \in Keys : latestValue(u, k)' = latestValue(u, k)
          BY <1>1, <3>2, <3>4, BeforeSame
    <3>6. CASE u = t
          BY <3>4, <3>5, <3>6
    <3>7. CASE u # t
      <4>1. sameTask(u) /\ (queued(queue', u) <=> queued(queue, u))
            BY <1>1, <1>4, <3>7
      <4>2. /\ worker[u] = idle /\ ~queued(queue, u) /\ status[u] = "validated" => consistent(u)
            /\ worker[u].at = "check" => checking(u, worker[u])
            BY <3>4 DEF Inv, Validations, validation
      <4>3. consistent(u) => consistent(u)'
            BY <3>5, <4>1 DEF consistent, sameTask
      <4>4. checking(u, worker[u]) => checking(u, worker[u])'
        <5>1. \A k \in DOMAIN txReadSets[u] : k \in Keys
              BY ReadKeys
        <5> QED BY <3>5, <4>1, <5>1 DEF checking, sameTask
      <4> QED BY <4>1, <4>2, <4>3, <4>4 DEF validation, sameTask
    <3> QED BY <3>6, <3>7
  <2> QED BY <1>1, <2>1 DEF Validations
<1> QED BY <1>2, <1>3, <1>6, <1>7 DEF Inv

\* The steps of a task that is not clean.
LEMMA DirtyStep ==
    ASSUME Inv, Latest, NEW t \in Tasks, step(t), phase = "validate",
           worker[t].at \in {"invalidate", "dependencies", "rerun"},
           queue' = queue, Types', owned(t)', workerTyped(worker[t])',
           \/ toExecute' = toExecute
           \/ /\ toExecute' = Append(toExecute, t)
              /\ worker'[t] = idle /\ status'[t] = "pending",
           \/ worker'[t].at \in {"dependencies", "rerun"}
           \/ worker'[t].at = "invalidate" /\ worker'[t].left \subseteq txWritesetKeys'[t]
           \/ worker'[t] = idle /\ status'[t] \in {"waiting", "pending"}
    PROVE  Inv'
<1>1. ~queued(queue, t) /\ ~queued(toExecute, t)
      BY BusyTask
<1>2. taken(t)
      BY <1>1 DEF taken
<1>3. worker'[t].at \in {"dependencies", "rerun", "invalidate", "idle"}
      BY DEF idle
<1>4. worker'[t].at = "idle" => status'[t] \in {"waiting", "pending"}
      OBVIOUS
<1>5. execution(t)'
      BY <1>3, <1>4 DEF execution, idle
<1>6. ~clean(t)'
      BY <1>3, <1>4 DEF clean
<1>7. validation(t)'
      BY <1>3, <1>4 DEF validation, idle
<1> QED BY <1>1, <1>2, <1>5, <1>6, <1>7, ValidateStep

-----------------------------------------------------------------------------
(***************************************************************************)
(* The writes of an execution.                                             *)
(***************************************************************************)
\* removeOldWriteset removes a key that the new writeset does not have.
LEMMA RemoveKeyKeeps ==
    ASSUME Inv, Latest, NEW t \in Tasks, NEW k \in Keys, RemoveKey(t, k) PROVE Inv'
<1> DEFINE w == worker[t]
           f == [w EXCEPT !.old = @ \ {k}]
<1>1. Types /\ w.at = "flush" /\ k \in w.old /\ StoreTypes
      BY DEF Inv, RemoveKey, Types
<1>2. w \in FlushStates /\ flushing(t, w)
      BY <1>1, WorkerFacts
<1>3. worker' = [worker EXCEPT ![t] = f] /\ mv' = [mv EXCEPT ![t] = [mv[t] EXCEPT ![k] = absent]]
      BY DEF RemoveKey
<1>4. /\ f \in FlushStates /\ f.at = "flush" /\ f.old = w.old \ {k} /\ f.new = w.new
      /\ f.vs = w.vs /\ f.estimate = w.estimate
      BY <1>2 DEF FlushStates
<1> HIDE DEF f
<1>5. phase = "execute" /\ ~queued(queue, t) /\ status[t] # "validated"
      BY <1>1, BusyTask
<1>6. UNCHANGED <<store, txWritesetKeys, txReadSets, txIterateSets, taskVars, queue, toExecute,
                  loopVars>>
      BY DEF RemoveKey
<1>7. step(t)
      BY <1>1, <1>3, <1>6 DEF step, sameTask, taskVars, loopVars, given, Types, StoreTypes
<1>8. absent \in Items
      BY DEF absent, Items, nil
<1>9. mv' \in [Tasks -> [Keys -> Items]]
      BY <1>1, <1>3, <1>8 DEF StoreTypes
<1>10. Types'
       BY <1>1, <1>3, <1>6, <1>9 DEF Types, StoreTypes, taskVars, loopVars, given, Tasks, n
<1>11. worker'[t] = f /\ mv'[t] = [mv[t] EXCEPT ![k] = absent] /\ mv[t] \in [Keys -> Items]
       BY <1>1, <1>3 DEF Types, StoreTypes
<1>12. workerTyped(worker[t])'
       BY <1>4, <1>5, <1>7, <1>11 DEF workerTyped, step
<1>13. flushing(t, worker[t])'
  <2>1. k \notin DOMAIN w.vs.writeset
        BY <1>1, <1>2 DEF flushing
  <2>2. /\ \A j \in Keys : j # k => mv'[t][j] = mv[t][j]
        /\ mv'[t][k] = absent
        BY <1>11
  <2>3. DOMAIN w.vs.writeset \in SUBSET Keys
        BY <1>2, DomainType DEF FlushStates, Views, Writes
  <2>4. block' = block /\ status' = status /\ response' = response
        BY <1>6 DEF loopVars, given, taskVars
  <2> QED BY <1>2, <1>4, <1>11, <2>1, <2>2, <2>3, <2>4 DEF flushing
<1>14. execution(t)'
       BY <1>4, <1>11, <1>13 DEF execution
<1>15. taken(t) /\ toExecute' = toExecute /\ status'[t] # "validated"
       BY <1>5, <1>6 DEF taken, taskVars
<1> QED BY <1>5, <1>7, <1>10, <1>12, <1>14, <1>15, ExecuteStep

\* SetWriteset and SetEstimatedWriteset write one item.
LEMMA SetKeyKeeps ==
    ASSUME Inv, Latest, NEW t \in Tasks, NEW k \in Keys, SetKey(t, k) PROVE Inv'
<1> DEFINE w == worker[t]
           f == [w EXCEPT !.new = @ \ {k}]
           item == IF w.estimate THEN NewEstimateItem ELSE NewValueItem(w.vs.writeset[k])
<1>1. Types /\ w.at = "flush" /\ k \in w.new /\ w.old = {} /\ StoreTypes
      BY DEF Inv, SetKey, Types
<1>2. w \in FlushStates /\ flushing(t, w)
      BY <1>1, WorkerFacts
<1>3. worker' = [worker EXCEPT ![t] = f] /\ mv' = [mv EXCEPT ![t] = [mv[t] EXCEPT ![k] = item]]
      BY DEF SetKey
<1>4. /\ f \in FlushStates /\ f.at = "flush" /\ f.old = w.old /\ f.new = w.new \ {k}
      /\ f.vs = w.vs /\ f.estimate = w.estimate
      BY <1>2 DEF FlushStates
<1> HIDE DEF f
<1>5. phase = "execute" /\ ~queued(queue, t) /\ status[t] # "validated"
      BY <1>1, BusyTask
<1>6. UNCHANGED <<store, txWritesetKeys, txReadSets, txIterateSets, taskVars, queue, toExecute,
                  loopVars>>
      BY DEF SetKey
<1>7. step(t)
      BY <1>1, <1>3, <1>6 DEF step, sameTask, taskVars, loopVars, given, Types, StoreTypes
<1>8. /\ DOMAIN w.vs.writeset \in SUBSET Keys
      /\ \A j \in DOMAIN w.vs.writeset : w.vs.writeset[j] \in Nat
      BY <1>2, DomainType DEF FlushStates, Views, Writes
<1>9. k \in DOMAIN w.vs.writeset
      BY <1>1, <1>2 DEF flushing
<1>10. item \in Items
       BY <1>8, <1>9 DEF NewEstimateItem, NewValueItem, Items, nil
<1> HIDE DEF item
<1>11. mv' \in [Tasks -> [Keys -> Items]]
       BY <1>1, <1>3, <1>10 DEF StoreTypes
<1>12. Types'
       BY <1>1, <1>3, <1>6, <1>11 DEF Types, StoreTypes, taskVars, loopVars, given, Tasks, n
<1>13. worker'[t] = f /\ mv'[t] = [mv[t] EXCEPT ![k] = item] /\ mv[t] \in [Keys -> Items]
       BY <1>1, <1>3 DEF Types, StoreTypes
<1>14. workerTyped(worker[t])'
       BY <1>4, <1>5, <1>7, <1>13 DEF workerTyped, step
<1>15. flushing(t, worker[t])'
  <2>1. /\ \A j \in Keys : j # k => mv'[t][j] = mv[t][j]
        /\ mv'[t][k] = item
        BY <1>13
  <2>2. block' = block /\ status' = status /\ response' = response
        BY <1>6 DEF loopVars, given, taskVars
  <2>3. \A j \in DOMAIN w.vs.writeset \ (w.new \ {k}) :
           mv'[t][j] = IF w.estimate THEN NewEstimateItem ELSE NewValueItem(w.vs.writeset[j])
        BY <1>2, <1>8, <2>1 DEF flushing, item
  <2>4. \A j \in Keys : mv'[t][j] # absent => j \in w.old \/ j \in DOMAIN w.vs.writeset
        BY <1>2, <1>9, <2>1 DEF flushing
  <2>5. w.new \ {k} \subseteq DOMAIN w.vs.writeset /\ w.old \cap DOMAIN w.vs.writeset = {}
        BY <1>2 DEF flushing
  <2>6. IF w.estimate THEN status[t] = "aborted"
        ELSE /\ status[t] = "executed"
             /\ records(block[t], w.vs.readset, w.vs.iterateset, w.vs.writeset, response[t])
        BY <1>2 DEF flushing
  <2> QED BY <1>4, <1>13, <2>2, <2>3, <2>4, <2>5, <2>6 DEF flushing
<1>16. execution(t)'
       BY <1>4, <1>13, <1>15 DEF execution
<1>17. taken(t) /\ toExecute' = toExecute /\ status'[t] # "validated"
       BY <1>5, <1>6 DEF taken, taskVars
<1> QED BY <1>5, <1>7, <1>12, <1>14, <1>16, <1>17, ExecuteStep

\* The recorded keys, readset and iterateset are those of what was written.
LEMMA EndExecuteKeeps ==
    ASSUME Inv, Latest, NEW t \in Tasks, EndExecute(t) PROVE Inv'
<1> DEFINE w == worker[t]
           ws == w.vs.writeset
<1>1. Types /\ w.at = "flush" /\ w.old = {} /\ w.new = {} /\ StoreTypes
      BY DEF Inv, EndExecute, Types
<1>2. w \in FlushStates /\ flushing(t, w) /\ w.vs \in Views
      BY <1>1, WorkerFacts DEF FlushStates
<1>3. /\ worker' = [worker EXCEPT ![t] = idle]
      /\ txWritesetKeys' = [txWritesetKeys EXCEPT ![t] = DOMAIN ws]
      /\ txReadSets' = [txReadSets EXCEPT ![t] =
                          IF w.estimate THEN txReadSets[t] ELSE w.vs.readset]
      /\ txIterateSets' = [txIterateSets EXCEPT ![t] =
                             IF w.estimate THEN txIterateSets[t] ELSE w.vs.iterateset]
      /\ UNCHANGED <<store, mv, taskVars, queue, toExecute, loopVars>>
      BY DEF EndExecute, at, recordWriteset
<1>4. /\ DOMAIN ws \in SUBSET Keys /\ \A j \in DOMAIN ws : ws[j] \in Nat
      /\ w.vs.readset \in Reads /\ w.vs.iterateset \in Seq(Trackers)
      BY <1>2, DomainType DEF Views, Writes
<1>5. phase = "execute" /\ ~queued(queue, t) /\ status[t] # "validated"
      BY <1>1, BusyTask
<1>6. step(t)
      BY <1>1, <1>3 DEF step, sameTask, taskVars, loopVars, given, Types, StoreTypes
<1>7. /\ txWritesetKeys' \in [Tasks -> SUBSET Keys] /\ txReadSets' \in [Tasks -> Reads]
      /\ txIterateSets' \in [Tasks -> Seq(Trackers)]
      BY <1>1, <1>3, <1>4 DEF Types
<1>8. Types'
      BY <1>1, <1>3, <1>7 DEF Types, StoreTypes, taskVars, loopVars, given, Tasks, n
<1>9. worker'[t] = idle /\ idle.at = "idle"
      BY <1>1, <1>3 DEF Types, idle
<1>10. workerTyped(worker[t])'
       BY <1>5, <1>6, <1>9 DEF workerTyped, step
<1>11. mv' = mv /\ txWritesetKeys'[t] = DOMAIN ws /\ status' = status /\ block' = block
       /\ response' = response
       BY <1>1, <1>3 DEF Types, taskVars, loopVars, given
<1>12. owned(t)'
       BY <1>1, <1>2, <1>11 DEF owned, flushing
<1>13. ASSUME status[t] \in {"executed", "validated"} PROVE settled(t)'
  <2>1. ~w.estimate
        BY <1>2, <1>13 DEF flushing
  <2>2. /\ \A k \in DOMAIN ws : mv[t][k] = NewValueItem(ws[k])
        /\ records(block[t], w.vs.readset, w.vs.iterateset, ws, response[t])
        BY <1>1, <1>2, <2>1 DEF flushing
  <2>3. txReadSets'[t] = w.vs.readset /\ txIterateSets'[t] = w.vs.iterateset
        BY <1>1, <1>3, <2>1 DEF Types
  <2>4. \A k \in DOMAIN ws : mv[t][k].kind = "value" /\ mv[t][k].value = ws[k]
    <3>1. ASSUME NEW k \in DOMAIN ws PROVE mv[t][k].kind = "value" /\ mv[t][k].value = ws[k]
      <4> DEFINE v == ws[k]
                 item == mv[t][k]
      <4>1. item = NewValueItem(v)
            BY <2>2
      <4> HIDE DEF v, item
      <4>2. item.kind = "value" /\ item.value = v
            BY <4>1 DEF NewValueItem
      <4> QED BY <4>2 DEF v, item
    <3> QED BY <3>1
  <2>5. ws = [k \in DOMAIN ws |-> ws[k]]
        BY <1>4, <1>2 DEF Views, Writes, Partial
  <2>6. values(t)' = ws
        BY <1>11, <2>4, <2>5 DEF values
  <2> HIDE DEF ws
  <2> QED BY <1>11, <2>2, <2>3, <2>4, <2>6 DEF settled
<1>14. execution(t)'
       BY <1>9, <1>11, <1>12, <1>13 DEF execution
<1>15. taken(t) /\ toExecute' = toExecute /\ status'[t] # "validated"
       BY <1>3, <1>5 DEF taken, taskVars
<1> QED BY <1>5, <1>6, <1>8, <1>10, <1>14, <1>15, ExecuteStep

-----------------------------------------------------------------------------
(***************************************************************************)
(* What was read is checked.                                               *)
(***************************************************************************)
\* validateTask: a replay of the iterations that succeeds below clean tasks is
\* one over the contents before the task.
LEMMA StartValidateKeeps ==
    ASSUME Inv, Latest, NEW t \in Tasks, StartValidate(t) PROVE Inv'
<1> DEFINE w == startValidation(t)
           c == [at |-> "check", left |-> DOMAIN txReadSets[t],
                 valid |-> checkIteratorAtIndex(t), conflicts |-> {}]
<1>1. /\ Types /\ isQueue(queue) /\ phase = "validate" /\ queue # <<>> /\ Head(queue) = t
      /\ StoreTypes
      BY DEF Inv, Queues, StartValidate, Types
<1>2. queued(queue, t)
      BY <1>1, QueueTail
<1>3. worker[t] = idle /\ ~queued(toExecute, t)
      BY <1>1, <1>2 DEF Inv, Queues
<1>4. execution(t) /\ owned(t) /\ status[t] \in Statuses /\ txReadSets[t] \in Reads
      /\ (status[t] \in {"executed", "validated"} => settled(t))
  <2>1. worker[t].at = "idle"
        BY <1>3 DEF idle
  <2> QED BY <2>1, TaskFacts, WorkerFacts
<1>5. /\ worker' = [worker EXCEPT ![t] = w] /\ queue' = Tail(queue)
      /\ UNCHANGED <<store, mvVars, taskVars, toExecute, loopVars>>
      BY DEF StartValidate, at
<1>6. \/ w = [at |-> "rerun"] /\ status[t] \in {"aborted", "pending"}
      \/ w = c /\ status[t] \in {"executed", "validated"}
      \/ w = [at |-> "dependencies", left |-> dependencies[t]] /\ status[t] = "waiting"
      BY <1>4 DEF startValidation, Statuses
<1> HIDE DEF w
<1>7. taken(t)
      BY <1>1, <1>5 DEF taken
<1>8. step(t)
      BY <1>1, <1>5 DEF step, sameTask, mvVars, taskVars, loopVars, given, Types
<1>9. Types'
      BY <1>1, <1>5 DEF Types, StoreTypes, mvVars, taskVars, loopVars, given, Tasks, n
<1>10. /\ worker'[t] = w /\ mv' = mv /\ txWritesetKeys' = txWritesetKeys
       /\ txReadSets' = txReadSets /\ txIterateSets' = txIterateSets
       /\ status' = status /\ response' = response /\ block' = block /\ phase' = "validate"
       BY <1>1, <1>5 DEF Types, mvVars, taskVars, loopVars, given
<1>11. c \in CheckStates /\ c.at = "check" /\ c.left = DOMAIN txReadSets[t]
       /\ c.valid = checkIteratorAtIndex(t) /\ c.conflicts = {}
  <2>1. DOMAIN txReadSets[t] \in SUBSET Keys
        BY <1>4, DomainType DEF Reads
  <2>2. checkIteratorAtIndex(t) \in BOOLEAN
        BY DEF checkIteratorAtIndex
  <2> QED BY <2>1, <2>2 DEF CheckStates
<1> HIDE DEF c
<1>12. /\ w.at \in {"rerun", "check", "dependencies"} /\ (w.at = "check" => w = c)
       /\ w.at = "check" => status[t] \in {"executed", "validated"}
       /\ w.at = "dependencies" => w = [at |-> "dependencies", left |-> w.left]
       BY <1>6, <1>11
<1>13. workerTyped(worker[t])'
       BY <1>10, <1>11, <1>12 DEF workerTyped
<1>14. execution(t)'
  <2>1. owned(t)'
        BY <1>4, <1>10 DEF owned
  <2>2. settled(t) => settled(t)'
        BY <1>10 DEF settled, values
  <2> QED BY <1>4, <1>10, <1>12, <2>1, <2>2 DEF execution
<1>15. clean(t)' => clean(t) /\ mv'[t] = mv[t]
  <2>1. clean(t)' => status[t] \in {"executed", "validated"}
        BY <1>10 DEF clean
  <2> QED BY <1>3, <1>10, <2>1 DEF clean, idle
<1>16. ASSUME cleanBefore(t), before(t)' = before(t),
              \A k \in Keys : latestValue(t, k)' = latestValue(t, k)
       PROVE  validation(t)'
  <2>1. worker'[t] # idle
        BY <1>10, <1>12 DEF idle
  <2>2. ASSUME w = c PROVE checking(t, worker[t])'
    <3>1. c.left = DOMAIN txReadSets'[t]
          BY <1>10, <1>11
    <3>2. ASSUME checkIteratorAtIndex(t)
          PROVE  iteratesOver(before(t), txIterateSets[t], Len(txIterateSets[t]))
      <4>1. \A j \in 1..(t - 1) : owned(j)
        <5>1. \A j \in 1..(t - 1) : j \in Tasks
              BY <1>1 DEF StoreTypes
        <5> QED BY <1>16, <5>1 DEF cleanBefore, clean, Inv, Executions, execution
      <4>2. txIterateSets[t] \in Seq(Trackers)
            BY TaskFacts
      <4>3. ASSUME NEW i \in 1..Len(txIterateSets[t])
            PROVE  served(before(t), txIterateSets[t][i]) = txIterateSets[t][i].iteratedKeys
        <5>1. i \in DOMAIN txIterateSets[t] /\ txIterateSets[t][i] \in Trackers
              BY <4>2
        <5>2. validateIterator(t, txIterateSets[t][i])
              BY <3>2, <5>1 DEF checkIteratorAtIndex
        <5> QED BY <1>1, <4>1, <5>1, <5>2, ReplayServes
      <4> QED BY <4>3 DEF iteratesOver
    <3> QED BY <1>10, <1>11, <1>16, <2>2, <3>1, <3>2 DEF checking
  <2> QED BY <1>10, <1>12, <2>1, <2>2 DEF validation
<1>17. toExecute' = toExecute
       BY <1>5
<1> QED BY <1>1, <1>3, <1>7, <1>8, <1>9, <1>13, <1>14, <1>15, <1>16, <1>17, ValidateStep

\* checkReadset: a key that has the value that was read, and no conflict.
LEMMA CheckKeyKeeps ==
    ASSUME Inv, Latest, NEW t \in Tasks, NEW k \in Keys, CheckKey(t, k) PROVE Inv'
<1> DEFINE w == worker[t]
           c == checkReadset(t, k)
           u == [w EXCEPT !.left = @ \ {k}, !.valid = @ /\ c.valid,
                          !.conflicts = @ \cup c.conflicts]
<1>1. Types /\ w.at = "check" /\ k \in w.left /\ StoreTypes
      BY DEF Inv, CheckKey, Types
<1>2. w \in CheckStates /\ execution(t)
      BY <1>1, TaskFacts, WorkerFacts
<1>3. /\ worker' = [worker EXCEPT ![t] = u]
      /\ UNCHANGED <<store, mvVars, taskVars, queue, toExecute, loopVars>>
      BY <1>1 DEF CheckKey, Types
<1>4. c.valid \in BOOLEAN /\ c.conflicts \in SUBSET Nat
  <2>1. GetLatestBeforeIndex(t, k) \in Nat
    <3>1. t \in 1..(n + 1)
          BY <1>1 DEF StoreTypes
    <3>2. GetLatestBeforeIndex(t, k) \in 0..(t - 1)
          BY <3>1, LatestItem
    <3> QED BY <3>2
  <2>2. (latestIsEstimate(t, k) \/ latestValue(t, k) = txReadSets[t][k][1]) \in BOOLEAN
        BY DEF latestIsEstimate, IsEstimate
  <2> QED BY <2>1, <2>2 DEF checkReadset
<1> HIDE DEF c
<1>5. /\ u \in CheckStates /\ u.at = "check" /\ u.left = w.left \ {k}
      /\ u.conflicts = w.conflicts \cup c.conflicts
      /\ u.valid = (w.valid /\ c.valid)
      BY <1>2, <1>4 DEF CheckStates
<1> HIDE DEF u
<1>6. phase = "validate" /\ ~queued(queue, t) /\ ~queued(toExecute, t)
      BY <1>1, BusyTask
<1>7. step(t)
      BY <1>1, <1>3 DEF step, sameTask, mvVars, taskVars, loopVars, given, Types
<1>8. Types'
      BY <1>1, <1>3 DEF Types, StoreTypes, mvVars, taskVars, loopVars, given, Tasks, n
<1>9. /\ worker'[t] = u /\ mv' = mv /\ txWritesetKeys' = txWritesetKeys
      /\ txReadSets' = txReadSets /\ txIterateSets' = txIterateSets
      /\ status' = status /\ response' = response /\ block' = block /\ phase' = "validate"
      BY <1>1, <1>3, <1>6 DEF Types, mvVars, taskVars, loopVars, given
<1>10. workerTyped(worker[t])'
       BY <1>5, <1>9 DEF workerTyped
<1>11. execution(t)'
  <2>1. owned(t)'
        BY <1>1, <1>2, <1>9 DEF owned, execution
  <2>2. settled(t) => settled(t)'
        BY <1>9 DEF settled, values
  <2> QED BY <1>1, <1>2, <1>5, <1>9, <2>1, <2>2 DEF execution
<1>12. clean(t)' => clean(t) /\ mv'[t] = mv[t]
       BY <1>1, <1>9 DEF clean
<1>13. ASSUME cleanBefore(t), before(t)' = before(t),
              \A j \in Keys : latestValue(t, j)' = latestValue(t, j)
       PROVE  validation(t)'
  <2>1. worker'[t] # idle
        BY <1>5, <1>9 DEF idle
  <2>2. checking(t, w)
        BY <1>1, <1>6, <1>13 DEF Inv, Validations, validation
  <2>3. ASSUME c.valid
        PROVE  c.conflicts = {} /\ (k \in DOMAIN txReadSets[t] =>
                                       txReadSets[t][k] = <<latestValue(t, k)>>)
    <3>1. ~latestIsEstimate(t, k)
          BY <1>13, CleanReads
    <3>2. Len(txReadSets[t][k]) = 1 /\ latestValue(t, k) = txReadSets[t][k][1]
          BY <2>3, <3>1 DEF checkReadset, c
    <3>3. c.conflicts = {}
          BY <3>1, <3>2 DEF checkReadset, c
    <3>4. ASSUME k \in DOMAIN txReadSets[t] PROVE txReadSets[t][k] = <<latestValue(t, k)>>
      <4>1. txReadSets[t][k] \in {<<v>> : v \in Nat}
            BY <3>4, ReadKeys
      <4> QED BY <3>2, <4>1
    <3> QED BY <3>3, <3>4
  <2>4. \A j \in DOMAIN txReadSets[t] : j \in Keys
        BY ReadKeys
  <2>5. checking(t, worker[t])'
        BY <1>5, <1>9, <1>13, <2>2, <2>3, <2>4 DEF checking
  <2> QED BY <1>9, <2>1, <2>5 DEF validation
<1>14. taken(t) /\ toExecute' = toExecute
       BY <1>3, <1>6 DEF taken
<1> QED BY <1>6, <1>7, <1>8, <1>10, <1>11, <1>12, <1>13, <1>14, ValidateStep
=============================================================================
