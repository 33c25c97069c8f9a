------------------------- MODULE SchedulerInvariant -------------------------
(***************************************************************************)
(* The inductive invariant of the optimistic scheduler, for the proof that *)
(* it implements serial execution.                                         *)
(***************************************************************************)
EXTENDS Scheduler

-----------------------------------------------------------------------------
(***************************************************************************)
(* Types.                                                                  *)
(***************************************************************************)
Contents == [Keys -> Nat]
Responses == Contents \cup {empty}
Transactions == Seq(Serial!Instructions)

Partial(V) == UNION {[K -> V] : K \in SUBSET Keys}

Reads == Partial({<<v>> : v \in Nat})
Writes == Partial(Nat)

Trackers == [iteratedKeys : SUBSET Keys, earlyStopKey : Nat, writeset : Writes]
Views == [readset : Reads, writeset : Writes, iterateset : Seq(Trackers)]

Items == [kind : {"absent", "estimate", "value"}, value : Nat]

StoreTypes ==
    /\ n \in Nat /\ Tasks = 1..n
    /\ store \in Contents
    /\ mv \in [Tasks -> [Keys -> Items]]

-----------------------------------------------------------------------------
(***************************************************************************)
(* The contents of a store that an execution's reads and iterations agree  *)
(* with, and what its writes leave.                                        *)
(***************************************************************************)
\* The contents after writes.
over(s, ws) == [k \in Keys |-> IF k \in DOMAIN ws THEN ws[k] ELSE s[k]]

\* The contents s have the values read, ...
readsFrom(s, rs) == \A k \in DOMAIN rs : rs[k] = <<s[k]>>

\* ... and an iteration over them serves the keys that it served.
served(s, tr) ==
    {k \in Keys : /\ tr.earlyStopKey = nil \/ k <= tr.earlyStopKey
                  /\ over(s, tr.writeset)[k] # nil}

iteratesOver(s, its, m) == \A i \in 1..m : served(s, its[i]) = its[i].iteratedKeys

-----------------------------------------------------------------------------
(***************************************************************************)
(* An execution in progress: on any contents it agrees with, the serial    *)
(* execution is where it is.                                               *)
(***************************************************************************)
States == [store : Contents, read : Contents]

\* The states of a serial execution of tx on s: x[m] is that after m accesses.
isRun(s, tx, x) ==
    /\ x \in [0..Len(tx) -> States]
    /\ x[0] = [store |-> s, read |-> Serial!nothingRead]
    /\ \A m \in 1..Len(tx) : x[m] = Serial!access(x[m - 1], tx[m])
    /\ x[Len(tx)] = Serial!deliverTx(s, tx)

run(s, tx) == CHOOSE x : isRun(s, tx, x)

RunStates == [at : {"run"}, pc : Nat, read : Contents, vs : Views,
              items : SUBSET Keys, next : Nat, left : Nat]

lastTracker(w) == w.vs.iterateset[Len(w.vs.iterateset)]

\* The iterations that are over, and the keys that the current one has served.
ended(w) == IF w.next = nil THEN Len(w.vs.iterateset) ELSE Len(w.vs.iterateset) - 1

current(w) == IF w.next = nil THEN {} ELSE lastTracker(w).iteratedKeys

agrees(s, w) ==
    readsFrom(s, w.vs.readset) /\ iteratesOver(s, w.vs.iterateset, ended(w))

\* An iteration in progress.  A key it has yet to meet is either one of its
\* items or one that the transaction has neither read nor written.
iterating(tx, w) ==
    /\ w.pc <= Len(tx) /\ tx[w.pc].op = "iter"
    /\ Len(w.vs.iterateset) # 0
    /\ lastTracker(w).writeset = w.vs.writeset
    /\ w.left # 0 /\ w.left + Cardinality(lastTracker(w).iteratedKeys) = tx[w.pc].limit
    /\ \A k \in lastTracker(w).iteratedKeys : k < w.next
    /\ DOMAIN w.vs.writeset \subseteq w.items
    /\ \A k \in DOMAIN w.vs.readset : k \in w.items \/ k < w.next

follows(s, tx, w) ==
    LET x == run(s, tx)[w.pc - 1]
    IN  /\ x.store = over(s, w.vs.writeset)
        /\ w.read = Serial!readAlso(x, current(w))

running(tx, w) ==
    /\ w.pc \in 1..(Len(tx) + 1)
    /\ w.next # nil => iterating(tx, w)
    /\ \A s \in Contents : agrees(s, w) => follows(s, tx, w)

-----------------------------------------------------------------------------
(***************************************************************************)
(* The inductive invariant.                                                *)
(***************************************************************************)
FlushStates == [at : {"flush"}, vs : Views, estimate : BOOLEAN,
                old : SUBSET Keys, new : SUBSET Keys]

CheckStates == [at : {"check"}, left : SUBSET Keys, valid : BOOLEAN, conflicts : SUBSET Nat]
InvalidateStates == [at : {"invalidate"}, left : SUBSET Keys, conflicts : SUBSET Nat]

Statuses == {"pending", "executed", "aborted", "validated", "waiting"}

Types ==
    /\ block \in Seq(Transactions) \ {<<>>}
    /\ StoreTypes
    /\ txWritesetKeys \in [Tasks -> SUBSET Keys]
    /\ txReadSets \in [Tasks -> Reads]
    /\ txIterateSets \in [Tasks -> Seq(Trackers)]
    /\ status \in [Tasks -> Statuses]
    /\ response \in [Tasks -> Responses]
    /\ DOMAIN worker = Tasks
    /\ phase \in {"execute", "validate", "done"}
    /\ synchronous \in BOOLEAN

\* What a goroutine is at, and in which phase.
workerTyped(w) ==
    /\ w.at \in (CASE phase = "execute" -> {"idle", "run", "flush"}
                   [] phase = "validate" -> {"idle", "check", "invalidate", "dependencies", "rerun"}
                   [] phase = "done" -> {"idle"})
    /\ w.at = "idle" => w = idle
    /\ w.at = "run" => w \in RunStates
    /\ w.at = "flush" => w \in FlushStates
    /\ w.at = "check" => w \in CheckStates
    /\ w.at = "invalidate" => w \in InvalidateStates
    /\ w.at = "dependencies" => w = [at |-> "dependencies", left |-> w.left]

Goroutines == \A t \in Tasks : workerTyped(worker[t])

isQueue(q) == q \in Seq(Tasks) /\ \A i, j \in DOMAIN q : q[i] = q[j] => i = j

queued(q, t) == \E i \in DOMAIN q : q[i] = t

\* A task is with one goroutine at a time.
Queues ==
    /\ isQueue(queue) /\ isQueue(toExecute)
    /\ \A t \in Tasks : queued(queue, t) => worker[t] = idle
    /\ phase = "validate" =>
          \A t \in Tasks : queued(toExecute, t) =>
             worker[t] = idle /\ ~queued(queue, t) /\ status[t] = "pending"
    /\ phase = "execute" => \E t \in Tasks : status[t] # "validated"
    /\ phase = "execute" =>
          \A t \in Tasks : worker[t] # idle \/ (~synchronous /\ queued(queue, t)) =>
             status[t] # "validated"
    /\ phase # "done" => responses = <<>>

\* What an execution that has ended says of serial ones.
records(tx, rs, its, ws, rsp) ==
    \A s \in Contents : readsFrom(s, rs) /\ iteratesOver(s, its, Len(its)) =>
        Serial!deliverTx(s, tx) = [store |-> over(s, ws), read |-> rsp]

flushing(t, w) ==
    LET ws == w.vs.writeset
    IN  /\ w.new \subseteq DOMAIN ws /\ w.old \cap DOMAIN ws = {}
        /\ \A k \in Keys : mv[t][k] # absent => k \in w.old \/ k \in DOMAIN ws
        /\ \A k \in DOMAIN ws \ w.new :
              mv[t][k] = IF w.estimate THEN NewEstimateItem ELSE NewValueItem(ws[k])
        /\ IF w.estimate THEN status[t] = "aborted"
           ELSE /\ status[t] = "executed"
                /\ records(block[t], w.vs.readset, w.vs.iterateset, ws, response[t])

\* The values that a task has in the multi-version store.
values(t) == [k \in txWritesetKeys[t] |-> mv[t][k].value]

settled(t) ==
    /\ \A k \in txWritesetKeys[t] : mv[t][k].kind = "value"
    /\ records(block[t], txReadSets[t], txIterateSets[t], values(t), response[t])

owned(t) == \A k \in Keys : mv[t][k] # absent => k \in txWritesetKeys[t]

execution(t) ==
    LET w == worker[t]
    IN  /\ w.at = "run" /\ w.pc # 0 => running(block[t], w)
        /\ w.at = "flush" => flushing(t, w)
        /\ w.at # "flush" => owned(t)
        /\ w.at = "invalidate" => w.left \subseteq txWritesetKeys[t]
        /\ w.at = "check" => status[t] \in {"executed", "validated"}
        /\ w.at \in {"idle", "check"} /\ status[t] \in {"executed", "validated"} => settled(t)

Executions == \A t \in Tasks : execution(t)

\* The contents that a task should have seen.
before(t) == [k \in Keys |-> latestValue(t, k)]

consistent(t) ==
    /\ readsFrom(before(t), txReadSets[t])
    /\ iteratesOver(before(t), txIterateSets[t], Len(txIterateSets[t]))

clean(t) == worker[t].at \in {"idle", "check"} /\ status[t] \in {"executed", "validated"}

cleanBefore(t) == \A j \in 1..(t - 1) : clean(j)

checking(t, w) ==
    w.valid =>
        /\ w.conflicts = {}
        /\ \A k \in DOMAIN txReadSets[t] \ w.left : txReadSets[t][k] = <<latestValue(t, k)>>
        /\ iteratesOver(before(t), txIterateSets[t], Len(txIterateSets[t]))

validation(t) ==
    cleanBefore(t) =>
        /\ worker[t] = idle /\ ~queued(queue, t) /\ status[t] = "validated" => consistent(t)
        /\ worker[t].at = "check" => checking(t, worker[t])

Validations ==
    /\ phase = "execute" => \A t \in Tasks :
          (\A j \in 1..t : status[j] = "validated") => consistent(t)
    /\ phase = "validate" => \A t \in Tasks : validation(t)

Inv == Types /\ Goroutines /\ Queues /\ Executions /\ Validations

-----------------------------------------------------------------------------
(***************************************************************************)
(* Facts that the lemmas about single steps use, as hypotheses there;      *)
(* SchedulerProofs proves them from the libraries of theorems.             *)
(***************************************************************************)
\* GetLatestBeforeIndex finds the last item before a transaction.
Latest ==
    \A i \in 1..(n + 1), k \in Keys :
        LET j == GetLatestBeforeIndex(i, k)
        IN  /\ j \in 0..(i - 1)
            /\ j # 0 => mv[j][k] # absent
            /\ \A m \in 1..(i - 1) : m > j => mv[m][k] = absent
            /\ latestValue(i, k) \in Nat

Minima == \A S \in SUBSET Nat : S # {} => Min(S) \in S /\ \A y \in S : Min(S) <= y

Counts ==
    /\ Cardinality({}) = 0
    /\ \A K \in SUBSET Keys :
          /\ Cardinality(K) \in Nat
          /\ \A k \in Keys \ K : Cardinality(K \cup {k}) = Cardinality(K) + 1

\* The keys an iteration serves before its limit, or when it reaches the end,
\* are the first ones.
FirstServed ==
    \A z \in Contents, limit \in Nat \ {0}, I \in SUBSET Keys :
        \/ Cardinality(I) < limit /\ I = {k \in Keys : z[k] # 0}
        \/ /\ Cardinality(I) = limit
           /\ \E m \in Nat : I = {k \in Keys : z[k] # 0 /\ k <= m}
        => Serial!firstKeys(z, limit) = I

\* A transaction on contents has a run.
Runs == \A s \in Contents, tx \in Transactions : isRun(s, tx, run(s, tx))

Basics == Minima /\ Counts /\ FirstServed /\ Runs
=============================================================================
