-------------------------- MODULE SchedulerRounds ---------------------------
(***************************************************************************)
(* The other steps keep the scheduler's invariant: executions, the outcome *)
(* of a validation, and the rounds of ProcessAll.                          *)
(***************************************************************************)
EXTENDS SchedulerSteps, SchedulerExecutions

-----------------------------------------------------------------------------
(***************************************************************************)
(* The outcome of a validation.                                            *)
(***************************************************************************)
\* The verdict: a task becomes validated only when what it has read is, below
\* clean tasks, what stands there.
LEMMA CheckedKeeps ==
    ASSUME Inv, Latest, NEW t \in Tasks, Checked(t) PROVE Inv'
<1> DEFINE w == worker[t]
           i == [at |-> "invalidate", left |-> txWritesetKeys[t], conflicts |-> w.conflicts]
           u == IF w.valid THEN idle ELSE i
           x == IF w.valid /\ w.conflicts = {} THEN "validated" ELSE status[t]
<1>1. Types /\ w.at = "check" /\ w.left = {} /\ StoreTypes
      BY DEF Inv, Checked, Types
<1>2. w \in CheckStates /\ execution(t) /\ txWritesetKeys[t] \in SUBSET Keys
      /\ status[t] \in Statuses
      BY <1>1, TaskFacts, WorkerFacts
<1>3. /\ worker' = [worker EXCEPT ![t] = u] /\ status' = [status EXCEPT ![t] = x]
      /\ UNCHANGED <<store, mvVars, response, queue, toExecute, loopVars>>
      BY <1>1, <1>2 DEF Checked, at, Types
<1>4. i \in InvalidateStates /\ i.at = "invalidate" /\ i.left = txWritesetKeys[t]
      /\ idle.at = "idle"
      BY <1>2 DEF InvalidateStates, CheckStates, idle
<1> HIDE DEF i
<1>5. phase = "validate" /\ ~queued(queue, t) /\ ~queued(toExecute, t)
      BY <1>1, BusyTask
<1>6. x \in Statuses /\ (x = status[t] \/ (x = "validated" /\ w.valid /\ w.conflicts = {}))
      BY <1>2 DEF Statuses
<1>7. (w.valid /\ u = idle) \/ (~w.valid /\ u = i /\ x = status[t])
      OBVIOUS
<1> HIDE DEF u, x
<1>8. step(t)
      BY <1>1, <1>3 DEF step, sameTask, mvVars, loopVars, given, Types
<1>9. Types'
      BY <1>1, <1>3, <1>6 DEF Types, StoreTypes, mvVars, loopVars, given, Tasks, n
<1>10. /\ worker'[t] = u /\ mv' = mv /\ txWritesetKeys' = txWritesetKeys
       /\ txReadSets' = txReadSets /\ txIterateSets' = txIterateSets
       /\ status'[t] = x /\ response' = response /\ block' = block /\ phase' = "validate"
       BY <1>1, <1>3, <1>5 DEF Types, mvVars, loopVars, given
<1>11. workerTyped(worker[t])'
       BY <1>4, <1>7, <1>10 DEF workerTyped
<1>12. status[t] \in {"executed", "validated"}
       BY <1>1, <1>2 DEF execution
<1>13. execution(t)'
  <2>1. owned(t)'
        BY <1>1, <1>2, <1>10 DEF owned, execution
  <2>2. settled(t) => settled(t)'
        BY <1>10 DEF settled, values
  <2>3. settled(t)
        BY <1>1, <1>2, <1>12 DEF execution
  <2> QED BY <1>4, <1>7, <1>10, <2>1, <2>2, <2>3 DEF execution
<1>14. clean(t)' => clean(t) /\ mv'[t] = mv[t]
       BY <1>1, <1>10, <1>12 DEF clean
<1>15. ASSUME cleanBefore(t), before(t)' = before(t),
              \A k \in Keys : latestValue(t, k)' = latestValue(t, k)
       PROVE  validation(t)'
  <2>1. checking(t, w)
        BY <1>1, <1>5, <1>15 DEF Inv, Validations, validation
  <2>2. \A k \in DOMAIN txReadSets[t] : k \in Keys
        BY ReadKeys
  <2>3. ASSUME w.valid PROVE consistent(t)'
    <3>1. /\ \A k \in DOMAIN txReadSets[t] : txReadSets[t][k] = <<latestValue(t, k)>>
          /\ iteratesOver(before(t), txIterateSets[t], Len(txIterateSets[t]))
          BY <1>1, <2>1, <2>3 DEF checking
    <3>2. readsFrom(before(t), txReadSets[t])
          BY <2>2, <3>1 DEF readsFrom, before
    <3> QED BY <1>10, <1>15, <3>1, <3>2 DEF consistent
  <2>4. worker'[t].at # "check"
        BY <1>4, <1>7, <1>10
  <2>5. worker'[t] = idle => w.valid
        BY <1>4, <1>7, <1>10
  <2> QED BY <2>3, <2>4, <2>5 DEF validation
<1>16. taken(t) /\ toExecute' = toExecute
       BY <1>3, <1>5 DEF taken
<1> QED BY <1>5, <1>8, <1>9, <1>11, <1>13, <1>14, <1>15, <1>16, ValidateStep

\* InvalidateWriteset turns one item into an estimate.
LEMMA InvalidateKeyKeeps ==
    ASSUME Inv, Latest, NEW t \in Tasks, NEW k \in Keys, InvalidateKey(t, k) PROVE Inv'
<1> DEFINE w == worker[t]
           u == [w EXCEPT !.left = @ \ {k}]
<1>1. Types /\ w.at = "invalidate" /\ k \in w.left /\ StoreTypes
      BY DEF Inv, InvalidateKey, Types
<1>2. w \in InvalidateStates /\ execution(t)
      BY <1>1, TaskFacts, WorkerFacts
<1>3. /\ worker' = [worker EXCEPT ![t] = u]
      /\ mv' = [mv EXCEPT ![t] = [mv[t] EXCEPT ![k] = NewEstimateItem]]
      /\ UNCHANGED <<store, txWritesetKeys, txReadSets, txIterateSets, taskVars, queue,
                     toExecute, loopVars>>
      BY DEF InvalidateKey
<1>4. u \in InvalidateStates /\ u.at = "invalidate" /\ u.left = w.left \ {k}
      BY <1>2 DEF InvalidateStates
<1> HIDE DEF u
<1>5. phase = "validate"
      BY <1>1, BusyTask
<1>6. step(t)
      BY <1>1, <1>3 DEF step, sameTask, taskVars, loopVars, given, Types, StoreTypes
<1>7. NewEstimateItem \in Items
      BY DEF NewEstimateItem, Items, nil
<1>8. mv' \in [Tasks -> [Keys -> Items]]
      BY <1>1, <1>3, <1>7 DEF StoreTypes
<1>9. Types'
      BY <1>1, <1>3, <1>8 DEF Types, StoreTypes, taskVars, loopVars, given, Tasks, n
<1>10. worker'[t] = u /\ mv'[t] = [mv[t] EXCEPT ![k] = NewEstimateItem]
       /\ mv[t] \in [Keys -> Items]
       BY <1>1, <1>3 DEF Types, StoreTypes
<1>11. w.left \subseteq txWritesetKeys[t] /\ owned(t)
       BY <1>1, <1>2 DEF execution
<1>12. owned(t)'
       BY <1>1, <1>3, <1>10, <1>11 DEF owned
<1>13. workerTyped(worker[t])'
       BY <1>4, <1>5, <1>6, <1>10 DEF workerTyped, step
<1>14. worker'[t].at = "invalidate" /\ worker'[t].left \subseteq txWritesetKeys'[t]
       BY <1>3, <1>4, <1>10, <1>11
<1>15. queue' = queue /\ toExecute' = toExecute
       BY <1>3
<1> QED BY <1>1, <1>5, <1>6, <1>9, <1>12, <1>13, <1>14, <1>15, DirtyStep

\* The invalidated task forgets what it read and looks at its dependencies.
LEMMA InvalidatedKeeps ==
    ASSUME Inv, Latest, NEW t \in Tasks, Invalidated(t) PROVE Inv'
<1> DEFINE w == worker[t]
           u == [at |-> "dependencies", left |-> dependencies[t] \cup w.conflicts]
<1>1. Types /\ w.at = "invalidate" /\ StoreTypes
      BY DEF Inv, Invalidated, Types
<1>2. owned(t)
      BY <1>1, WorkerFacts
<1>3. /\ worker' = [worker EXCEPT ![t] = u]
      /\ txReadSets' = [txReadSets EXCEPT ![t] = empty]
      /\ txIterateSets' = [txIterateSets EXCEPT ![t] = empty]
      /\ UNCHANGED <<store, mv, txWritesetKeys, status, response, queue, toExecute, loopVars>>
      BY DEF Invalidated, at
<1>4. u.at = "dependencies" /\ u = [at |-> "dependencies", left |-> u.left]
      OBVIOUS
<1> HIDE DEF u
<1>5. phase = "validate"
      BY <1>1, BusyTask
<1>6. step(t)
      BY <1>1, <1>3 DEF step, sameTask, loopVars, given, Types
<1>7. empty \in Reads /\ empty \in Seq(Trackers)
      BY EmptySets
<1>8. txReadSets' \in [Tasks -> Reads] /\ txIterateSets' \in [Tasks -> Seq(Trackers)]
      BY <1>1, <1>3, <1>7 DEF Types
<1>9. Types'
      BY <1>1, <1>3, <1>8 DEF Types, StoreTypes, loopVars, given, Tasks, n
<1>10. worker'[t] = u
       BY <1>1, <1>3 DEF Types
<1>11. owned(t)'
       BY <1>2, <1>3 DEF owned
<1>12. workerTyped(worker[t])'
       BY <1>4, <1>5, <1>6, <1>10 DEF workerTyped, step
<1>13. queue' = queue /\ toExecute' = toExecute
       BY <1>3
<1> QED BY <1>1, <1>4, <1>5, <1>6, <1>9, <1>10, <1>11, <1>12, <1>13, DirtyStep

\* dependenciesValidated, and the reset of a task that runs again.
LEMMA DependencyKeeps ==
    ASSUME Inv, Latest, NEW t \in Tasks,
           (\E d \in Tasks : CheckDependency(t, d)) \/ DependenciesValidated(t) \/ Rerun(t)
    PROVE  Inv'
<1> DEFINE w == worker[t]
           u == worker'[t]
<1>1. /\ Types /\ StoreTypes /\ w.at \in {"dependencies", "rerun"}
      /\ UNCHANGED <<store, mvVars, dependencies, queue, loopVars>>
      BY DEF Inv, Types, CheckDependency, DependenciesValidated, Rerun, taskVars
<1>2. owned(t)
      BY <1>1, WorkerFacts
<1>3. phase = "validate"
      BY <1>1, BusyTask
<1> DEFINE outcome ==
        /\ DOMAIN worker' = Tasks
        /\ status' \in [Tasks -> Statuses] /\ response' \in [Tasks -> Responses]
        /\ \A j \in Tasks : j # t => /\ worker'[j] = worker[j] /\ status'[j] = status[j]
                                     /\ response'[j] = response[j]
        /\ \/ /\ u.at \in {"dependencies", "rerun"} /\ toExecute' = toExecute
              /\ u.at = "dependencies" => u = [at |-> "dependencies", left |-> u.left]
           \/ u = idle /\ status'[t] = "waiting" /\ toExecute' = toExecute
           \/ u = idle /\ status'[t] = "pending" /\ toExecute' = Append(toExecute, t)
<1>4. outcome
  <2> USE <1>1 DEF Types
  <2>1. CASE DependenciesValidated(t)
        BY <2>1 DEF DependenciesValidated, at, taskVars
  <2>2. CASE Rerun(t)
    <3>1. empty \in Responses
          BY DEF Responses
    <3> QED BY <2>2, <3>1 DEF Rerun, at, Statuses
  <2>3. ASSUME NEW d \in Tasks, CheckDependency(t, d), status[d] = "validated"
        PROVE  outcome
    <3> DEFINE z == [w EXCEPT !.left = @ \ {d}]
    <3>1. w = [at |-> "dependencies", left |-> w.left]
          BY <2>3, WorkerFacts DEF CheckDependency
    <3>2. z.at = "dependencies" /\ z = [at |-> "dependencies", left |-> z.left]
      <4> DEFINE L == w.left
                 M == L \ {d}
      <4>1. w = [at |-> "dependencies", left |-> L]
            BY <3>1
      <4>2. z = [w EXCEPT !.left = M]
            BY <4>1
      <4> HIDE DEF z, w, L, M
      <4>3. z = [at |-> "dependencies", left |-> M]
            BY <4>1, <4>2
      <4> QED BY <4>3
    <3>3. worker' = [worker EXCEPT ![t] = z] /\ status' = status
          BY <2>3 DEF CheckDependency
    <3> HIDE DEF z, w
    <3>4. u = z
          BY <3>3
    <3> QED BY <2>3, <3>2, <3>3, <3>4 DEF CheckDependency
  <2>4. ASSUME NEW d \in Tasks, CheckDependency(t, d), status[d] # "validated"
        PROVE  outcome
        BY <2>4 DEF CheckDependency, at, Statuses
  <2> HIDE DEF outcome
  <2> QED BY <2>1, <2>2, <2>3, <2>4
<1> HIDE DEF u
<1>5. step(t)
      BY <1>1, <1>4 DEF step, sameTask, mvVars, loopVars, given
<1>6. Types'
      BY <1>1, <1>4 DEF Types, StoreTypes, mvVars, loopVars, given, Tasks, n
<1>7. owned(t)'
      BY <1>1, <1>2 DEF owned, mvVars
<1>8. workerTyped(worker[t])'
      BY <1>3, <1>4, <1>5 DEF workerTyped, step, idle, u
<1> QED BY <1>1, <1>3, <1>4, <1>5, <1>6, <1>7, <1>8, DirtyStep DEF u

-----------------------------------------------------------------------------
(***************************************************************************)
(* deliverTx.                                                              *)
(***************************************************************************)
\* executeTask: a task that is taken starts as a serial execution does; in the
\* synchronous mode what it had written is an estimate until it writes again.
LEMMA StartExecuteKeeps ==
    ASSUME Inv, Basics, Latest, NEW t \in Tasks, StartExecute(t) PROVE Inv'
<1> DEFINE w == [at |-> "run", pc |-> 1, read |-> Serial!nothingRead,
                 vs |-> NewVersionIndexedStore, items |-> {}, next |-> nil, left |-> 0]
<1>1. Types /\ isQueue(queue) /\ phase = "execute" /\ queue # <<>> /\ Head(queue) = t
      BY DEF Inv, Queues, StartExecute
<1>2. queued(queue, t)
      BY <1>1, QueueTail
<1>3. worker[t] = idle /\ (~synchronous => status[t] # "validated") /\ synchronous \in BOOLEAN
      BY <1>1, <1>2 DEF Inv, Queues, Types
<1>4. w \in RunStates /\ running(block[t], w)
      BY TaskFacts, RunStarts
<1> HIDE DEF w
<1>5. owned(t)
      BY <1>3, TaskFacts DEF execution, idle
<1>6. worker' = [worker EXCEPT ![t] = w]
      BY DEF StartExecute, at, w
<1>7. taken(t) /\ toExecute' = toExecute
      BY <1>1 DEF StartExecute, taken
<1>8. step(t)
  <2>1. ASSUME NEW u \in Tasks, u # t PROVE sameTask(u)
        BY <1>1, <1>6, <2>1 DEF StartExecute, sameTask, Types, StoreTypes
  <2> QED BY <2>1 DEF StartExecute, step, loopVars, given
<1>9. invalidated(t) \in [Keys -> Items]
      BY TaskFacts DEF invalidated, NewEstimateItem, Items, nil
<1>10. empty \in Reads /\ empty \in Seq(Trackers)
       BY EmptySets
<1>11. mv' \in [Tasks -> [Keys -> Items]]
       BY <1>1, <1>9 DEF StartExecute, Types, StoreTypes
<1>12. txReadSets' \in [Tasks -> Reads] /\ txIterateSets' \in [Tasks -> Seq(Trackers)]
       BY <1>1, <1>10 DEF StartExecute, Types
<1>13. status' \in [Tasks -> Statuses] /\ status'[t] # "validated"
       BY <1>1, <1>3 DEF StartExecute, Types, Statuses
<1>14. response' \in [Tasks -> Responses]
  <2>1. empty \in Responses
        BY DEF Responses
  <2> QED BY <1>1, <2>1 DEF StartExecute, Types
<1>15. Types'
       BY <1>1, <1>6, <1>8, <1>11, <1>12, <1>13, <1>14
       DEF Types, StoreTypes, StartExecute, step, Tasks, n
<1>16. worker'[t] = w /\ w.at = "run"
       BY <1>1, <1>6 DEF Types, w
<1>17. workerTyped(worker[t])'
       BY <1>1, <1>4, <1>8, <1>16 DEF workerTyped, step
<1>18. owned(t)'
       BY <1>1, <1>5 DEF StartExecute, owned, invalidated, Types, StoreTypes
<1>19. execution(t)'
       BY <1>4, <1>8, <1>16, <1>18 DEF execution, step
<1> QED BY <1>1, <1>7, <1>8, <1>13, <1>15, <1>17, <1>19, ExecuteStep

\* An access: the execution goes on as a serial one on what it has read.
LEMMA AccessKeeps ==
    ASSUME Inv, Basics, Latest, NEW t \in Tasks, Access(t) PROVE Inv'
<1> DEFINE w == worker[t]
           u == accessStep(t, w)
<1>1. Types /\ w.at = "run" /\ w.pc \in DOMAIN block[t] /\ StoreTypes
      BY DEF Inv, Access, Types
<1>2. w \in RunStates /\ block[t] \in Transactions /\ owned(t)
      BY <1>1, TaskFacts DEF workerTyped, execution
<1>3. w.pc # 0
      BY <1>1, <1>2 DEF Transactions
<1>4. running(block[t], w)
      BY <1>1, <1>3, TaskFacts DEF execution
<1>5. u \in RunStates /\ (u.pc # 0 => running(block[t], u))
      BY <1>1, <1>2, <1>4, StepAccess DEF Types
<1>6. /\ worker' = [worker EXCEPT ![t] = u] /\ UNCHANGED <<store, mvVars, taskVars, queue>>
      /\ UNCHANGED <<toExecute, loopVars>>
      BY DEF Access, at
<1> HIDE DEF u
<1>7. phase = "execute" /\ ~queued(queue, t) /\ status[t] # "validated"
      BY <1>1, BusyTask
<1>8. step(t)
      BY <1>1, <1>6 DEF step, sameTask, mvVars, taskVars, loopVars, given, Types
<1>9. Types'
      BY <1>1, <1>6 DEF Types, StoreTypes, mvVars, taskVars, loopVars, given, Tasks, n
<1>10. worker'[t] = u /\ u.at = "run"
       BY <1>1, <1>5, <1>6 DEF Types, RunStates
<1>11. workerTyped(worker[t])'
       BY <1>5, <1>7, <1>8, <1>10 DEF workerTyped, step
<1>12. execution(t)'
  <2>1. owned(t)'
        BY <1>2, <1>6 DEF owned, mvVars
  <2> QED BY <1>5, <1>8, <1>10, <2>1 DEF execution, step
<1>13. taken(t) /\ toExecute' = toExecute /\ status'[t] # "validated"
       BY <1>6, <1>7 DEF taken, taskVars
<1> QED BY <1>7, <1>8, <1>9, <1>11, <1>12, <1>13, ExecuteStep

\* deliverTx has returned: the task leaves its old keys to be removed and its
\* writeset to be written.
LEMMA DeliveredKeeps ==
    ASSUME Inv, Basics, Latest, NEW t \in Tasks, Delivered(t) PROVE Inv'
<1> DEFINE w == worker[t]
           ws == DOMAIN w.vs.writeset
           f == [at |-> "flush", vs |-> w.vs, estimate |-> aborted(w),
                 old |-> staleKeys(t, ws), new |-> ws]
<1>1. Types /\ w.at = "run" /\ w.pc \notin DOMAIN block[t] /\ StoreTypes
      BY DEF Inv, Delivered, Types
<1>2. w \in RunStates /\ block[t] \in Transactions /\ owned(t)
      BY <1>1, TaskFacts DEF workerTyped, execution
<1>3. w.vs \in Views /\ ws \in SUBSET Keys /\ w.read \in Contents
      BY <1>2, PartialType DEF RunStates, Views, Writes
<1>4. /\ staleKeys(t, ws) \in SUBSET Keys /\ staleKeys(t, ws) \cap ws = {}
      /\ aborted(w) \in BOOLEAN
      BY TaskFacts DEF staleKeys, aborted
<1>5. ~aborted(w) => records(block[t], w.vs.readset, w.vs.iterateset, w.vs.writeset, w.read)
  <2> SUFFICES ASSUME w.pc # 0
               PROVE  records(block[t], w.vs.readset, w.vs.iterateset, w.vs.writeset, w.read)
      BY DEF aborted
  <2>1. running(block[t], w)
        BY <1>1, TaskFacts DEF execution
  <2> QED BY <1>1, <1>2, <2>1, RunEnds
<1>6. worker' = [worker EXCEPT ![t] = f]
      BY DEF Delivered, at
<1>7. f \in FlushStates /\ f.at = "flush"
      BY <1>3, <1>4 DEF FlushStates
<1>8. phase = "execute" /\ ~queued(queue, t)
      BY <1>1, BusyTask
<1>9. step(t)
  <2>1. ASSUME NEW u \in Tasks, u # t PROVE sameTask(u)
        BY <1>1, <2>1 DEF Delivered, at, sameTask, Types, StoreTypes
  <2> QED BY <2>1 DEF Delivered, step, loopVars, given
<1>10. status' = [status EXCEPT ![t] = IF aborted(w) THEN "aborted" ELSE "executed"]
       BY DEF Delivered
<1>11. response' = [response EXCEPT ![t] = IF aborted(w) THEN response[t] ELSE w.read]
       BY DEF Delivered
<1>12. mv' = mv /\ txWritesetKeys' = [txWritesetKeys EXCEPT ![t] = {}]
       BY DEF Delivered
<1>13. status' \in [Tasks -> Statuses] /\ response' \in [Tasks -> Responses]
  <2>1. response[t] \in Responses /\ w.read \in Responses
        BY <1>1, <1>3 DEF Types, Responses
  <2> QED BY <1>1, <1>10, <1>11, <2>1 DEF Types, Statuses
<1>14. Types'
       BY <1>1, <1>6, <1>9, <1>12, <1>13 DEF Types, StoreTypes, Delivered, step, Tasks, n
<1>15. worker'[t] = f
       BY <1>1, <1>6 DEF Types
<1>16. workerTyped(worker[t])'
       BY <1>7, <1>8, <1>9, <1>15 DEF workerTyped, step
<1>17. status'[t] = (IF aborted(w) THEN "aborted" ELSE "executed")
       BY <1>1, <1>10 DEF Types
<1>18. ~aborted(w) => response'[t] = w.read
       BY <1>1, <1>11 DEF Types
<1>19. flushing(t, worker[t])'
  <2>1. \A k \in Keys : mv[t][k] # absent => k \in staleKeys(t, ws) \/ k \in ws
        BY <1>2 DEF owned, staleKeys
  <2>2. /\ f.vs = w.vs /\ f.old = staleKeys(t, ws) /\ f.new = ws
        /\ f.estimate = aborted(w)
        OBVIOUS
  <2>3. block' = block
        BY <1>9 DEF step
  <2> HIDE DEF f
  <2> QED BY <1>4, <1>5, <1>12, <1>15, <1>17, <1>18, <2>1, <2>2, <2>3 DEF flushing
<1>20. execution(t)'
       BY <1>7, <1>15, <1>19 DEF execution
<1>21. taken(t) /\ toExecute' = toExecute /\ status'[t] # "validated"
       BY <1>8, <1>17 DEF taken, Delivered
<1> QED BY <1>8, <1>9, <1>14, <1>16, <1>20, <1>21, ExecuteStep

-----------------------------------------------------------------------------
(***************************************************************************)
(* The rounds of ProcessAll.                                               *)
(***************************************************************************)
\* Nothing of a task changes between rounds.
LEMMA BetweenRounds ==
    ASSUME Types, Goroutines, Executions, roundDone, UNCHANGED <<mvVars, taskVars, worker, block>>
    PROVE  /\ \A t \in Tasks : worker[t] = idle /\ worker[t].at = "idle"
           /\ phase' \in {"execute", "validate", "done"} => Goroutines'
           /\ Executions'
<1>1. \A t \in Tasks : worker[t] = idle /\ worker[t].at = "idle"
      BY DEF roundDone, idle
<1>2. Tasks' = Tasks
      BY DEF Tasks
<1>3. ASSUME phase' \in {"execute", "validate", "done"} PROVE Goroutines'
      BY <1>1, <1>2, <1>3 DEF Goroutines, workerTyped
<1>4. ASSUME NEW t \in Tasks PROVE execution(t)'
  <2>1. sameTask(t)
        BY DEF sameTask, mvVars, taskVars
  <2>2. execution(t)
        BY DEF Executions
  <2> QED BY <2>1, <2>2, ExecutionSame
<1> QED BY <1>1, <1>2, <1>3, <1>4 DEF Executions

\* After a validation with all goroutines idle, what a prefix of validated
\* tasks has read is what stands below it.
LEMMA ValidatedConsistent ==
    ASSUME Inv, phase = "validate", roundDone, NEW t \in Tasks,
           \A j \in 1..t : status[j] = "validated"
    PROVE  consistent(t)
<1>1. Types /\ StoreTypes /\ Validations /\ queue = <<>> /\ \A j \in Tasks : worker[j] = idle
      BY DEF Inv, Types, roundDone
<1>2. t \in Nat \ {0} /\ t <= n /\ n \in Nat /\ Tasks = 1..n
      BY <1>1 DEF StoreTypes
<1>3. ASSUME NEW j \in 1..(t - 1) PROVE clean(j)
  <2>1. j \in Tasks /\ j \in 1..t
        BY <1>2
  <2> QED BY <1>1, <2>1 DEF clean, idle
<1>4. cleanBefore(t)
      BY <1>3 DEF cleanBefore
<1>5. ~queued(queue, t)
      BY <1>1 DEF queued
<1>6. status[t] = "validated"
      BY <1>2
<1> QED BY <1>1, <1>4, <1>5, <1>6 DEF Validations, validation

\* When every task is validated, none has left an estimate, and what
\* WriteLatestToStore writes are the contents after the last task.
LEMMA WriteLatestBefore ==
    ASSUME Inv, Latest, roundDone, allValidated, WriteLatestToStore(n)
    PROVE  /\ \A t \in Tasks : owned(t) /\ settled(t) /\ txWritesetKeys[t] \subseteq Keys
           /\ store' = before(n + 1)
<1>1. Types /\ StoreTypes /\ Executions
      BY DEF Inv, Types
<1>2. ASSUME NEW t \in Tasks PROVE owned(t) /\ settled(t) /\ txWritesetKeys[t] \subseteq Keys
  <2>1. worker[t].at = "idle" /\ status[t] = "validated" /\ execution(t)
        BY <1>1 DEF roundDone, allValidated, idle, Executions
  <2> QED BY <1>1, <2>1 DEF execution, Types
<1>3. n \in Nat /\ Tasks = 1..n /\ n + 1 - 1 = n
      BY <1>1 DEF StoreTypes
<1>4. ASSUME NEW k \in Keys
      PROVE  GetLatestNonEstimate(n, k) = GetLatestBeforeIndex(n + 1, k)
  <2>1. ASSUME NEW j \in 1..n, mv[j][k] # absent PROVE ~IsEstimate(mv[j][k])
    <3>1. k \in txWritesetKeys[j]
          BY <1>2, <1>3, <2>1 DEF owned
    <3> QED BY <1>2, <1>3, <3>1 DEF settled, IsEstimate
  <2> DEFINE A == {j \in 1..n : mv[j][k] # absent /\ ~IsEstimate(mv[j][k])} \cup {0}
             B == {j \in 1..((n + 1) - 1) : mv[j][k] # absent} \cup {0}
  <2>2. A = B
        BY <1>3, <2>1
  <2>3. GetLatestNonEstimate(n, k) = Max(A)
        BY ONLY TRUE DEF GetLatestNonEstimate
  <2>4. GetLatestBeforeIndex(n + 1, k) = Max(B)
        BY ONLY TRUE DEF GetLatestBeforeIndex
  <2> HIDE DEF A, B
  <2> QED BY <2>2, <2>3, <2>4
<1>5. store' = before(n + 1)
      BY <1>4 DEF WriteLatestToStore, before, latestValue
<1> QED BY <1>2, <1>5

\* The first task that is not validated.
LEMMA FirstFacts ==
    ASSUME Basics, StoreTypes, \E t \in Tasks : status[t] # "validated"
    PROVE  /\ findFirstNonValidated \in Tasks
           /\ \A t \in Tasks : t < findFirstNonValidated => status[t] = "validated"
<1> DEFINE S == {t \in Tasks : status[t] # "validated"}
<1>1. S \subseteq Nat /\ S # {}
      BY DEF StoreTypes
<1>2. Min(S) \in S /\ \A y \in S : Min(S) <= y
  <2> HIDE DEF S
  <2> QED BY <1>1, MinFacts
<1>3. findFirstNonValidated = Min(S)
      BY DEF findFirstNonValidated
<1>4. ASSUME NEW t \in Tasks, t < Min(S), status[t] # "validated" PROVE FALSE
  <2>1. t \in S /\ t \in Nat /\ Min(S) \in Nat
        BY <1>1, <1>2, <1>4
  <2> HIDE DEF S
  <2> QED BY <1>2, <1>4, <2>1
<1> QED BY <1>2, <1>3, <1>4

\* validateAll validates the tasks from the first unvalidated one on; those
\* before it have been consistent since they were validated.
LEMMA ValidateAllKeeps ==
    ASSUME Inv, Basics, Latest, ValidateAll PROVE Inv'
<1> DEFINE f == findFirstNonValidated
<1>1. /\ Types /\ StoreTypes /\ Goroutines /\ Queues /\ Executions /\ Validations
      /\ phase = "execute" /\ phase' = "validate" /\ roundDone
      /\ queue' = tasksFrom(f) /\ toExecute' = <<>>
      /\ UNCHANGED <<store, mvVars, taskVars, worker, block, responses, synchronous>>
      BY DEF Inv, Types, ValidateAll, given
<1>2. Tasks' = Tasks /\ n' = n
      BY <1>1 DEF Tasks, n
<1>3. Types'
      BY <1>1, <1>2 DEF Types, StoreTypes, mvVars, taskVars
<1>4. Goroutines' /\ Executions' /\ \A t \in Tasks : worker[t] = idle
      BY <1>1, BetweenRounds
<1>5. /\ f \in Tasks
      /\ \A t \in Tasks : t < f => status[t] = "validated"
      BY <1>1, FirstFacts DEF Queues
<1> HIDE DEF f
<1>6. /\ isQueue(tasksFrom(f))
      /\ \A t \in Tasks : queued(tasksFrom(f), t) <=> t >= f
      BY <1>1, <1>5, QueueFrom
<1>7. Queues'
  <2>1. isQueue(<<>>) /\ \A t : ~queued(<<>>, t)
        BY DEF isQueue, queued
  <2>2. isQueue(queue)' /\ isQueue(toExecute)'
        BY <1>1, <1>2, <1>6, <2>1 DEF isQueue
  <2>3. \A t \in Tasks : worker'[t] = idle /\ ~queued(toExecute, t)'
        BY <1>1, <1>4, <2>1 DEF queued
  <2>4. responses' = <<>>
        BY <1>1 DEF Queues
  <2> QED BY <1>1, <1>2, <2>2, <2>3, <2>4 DEF Queues
<1>8. ASSUME NEW t \in Tasks PROVE validation(t)'
  <2>1. worker'[t].at # "check" /\ worker'[t] = idle
        BY <1>1, <1>4 DEF idle
  <2>2. ASSUME ~queued(queue, t)' PROVE consistent(t)'
    <3>1. t < f /\ t \in Nat \ {0} /\ f \in Nat /\ f <= n /\ t <= n /\ n \in Nat
          BY <1>1, <1>5, <1>6, <2>2 DEF StoreTypes, queued
    <3>2. ASSUME NEW j \in 1..t PROVE status[j] = "validated"
      <4>1. j \in Tasks /\ j < f
            BY <1>1, <3>1 DEF StoreTypes
      <4> QED BY <1>5, <4>1
    <3>3. consistent(t)
          BY <1>1, <3>2 DEF Validations
    <3>4. t \in 1..(n + 1)
          BY <3>1
    <3>5. before(t)' = before(t)
          BY <1>1, <3>4, BeforeSame DEF mvVars
    <3> QED BY <1>1, <3>3, <3>5 DEF consistent, mvVars
  <2> QED BY <2>1, <2>2 DEF validation
<1>9. Validations'
      BY <1>1, <1>2, <1>8 DEF Validations
<1> QED BY <1>3, <1>4, <1>7, <1>9 DEF Inv

\* The next round executes what was reset or, one task at a time, everything
\* from the first unvalidated task on.
LEMMA NextRoundKeeps ==
    ASSUME Inv, Basics, Latest, NextRound PROVE Inv'
<1> DEFINE f == findFirstNonValidated
<1>1. /\ Types /\ StoreTypes /\ Goroutines /\ Queues /\ Executions
      /\ phase = "validate" /\ phase' = "execute" /\ roundDone /\ ~allValidated
      /\ synchronous' \in BOOLEAN
      /\ queue' = IF synchronous' THEN tasksFrom(f) ELSE toExecute
      /\ UNCHANGED <<store, mvVars, taskVars, worker, toExecute, block, responses>>
      BY DEF Inv, Types, NextRound, roundTasks, given
<1>2. Tasks' = Tasks /\ n' = n
      BY <1>1 DEF Tasks, n
<1>3. Types'
      BY <1>1, <1>2 DEF Types, StoreTypes, mvVars, taskVars
<1>4. Goroutines' /\ Executions' /\ \A t \in Tasks : worker[t] = idle
      BY <1>1, BetweenRounds
<1>5. \E t \in Tasks : status[t] # "validated"
      BY <1>1 DEF allValidated
<1>6. f \in Tasks
      BY <1>1, <1>5, FirstFacts
<1> HIDE DEF f
<1>7. isQueue(tasksFrom(f))
      BY <1>1, <1>6, QueueFrom
<1>8. Queues'
  <2>1. isQueue(queue)' /\ isQueue(toExecute)'
        BY <1>1, <1>2, <1>7 DEF Queues, isQueue
  <2>2. \A t \in Tasks : worker'[t] = idle
        BY <1>1, <1>4
  <2>3. ASSUME NEW t \in Tasks, ~synchronous', queued(queue, t)' PROVE status'[t] # "validated"
    <3>1. queued(toExecute, t)
          BY <1>1, <2>3 DEF queued
    <3>2. status[t] = "pending"
          BY <1>1, <3>1 DEF Queues
    <3> QED BY <1>1, <3>2 DEF taskVars
  <2>4. responses' = <<>>
        BY <1>1 DEF Queues
  <2>5. \E t \in Tasks : status'[t] # "validated"
        BY <1>1, <1>5 DEF taskVars
  <2> QED BY <1>1, <1>2, <2>1, <2>2, <2>3, <2>4, <2>5 DEF Queues
<1>9. ASSUME NEW t \in Tasks, \A j \in 1..t : status'[j] = "validated" PROVE consistent(t)'
  <2>1. \A j \in 1..t : status[j] = "validated"
        BY <1>1, <1>9 DEF taskVars
  <2>2. consistent(t)
        BY <1>1, <2>1, ValidatedConsistent
  <2>3. t \in 1..(n + 1)
        BY <1>1 DEF StoreTypes
  <2>4. before(t)' = before(t)
        BY <1>1, <2>3, BeforeSame DEF mvVars
  <2> QED BY <1>1, <2>2, <2>4 DEF consistent, mvVars
<1>10. Validations'
       BY <1>1, <1>2, <1>9 DEF Validations
<1> QED BY <1>3, <1>4, <1>8, <1>10 DEF Inv

\* The last step keeps the invariant: a store is left.
LEMMA FinishKeeps ==
    ASSUME Inv, Latest, Finish PROVE Inv'
<1>1. /\ Types /\ StoreTypes /\ Goroutines /\ Queues /\ Executions
      /\ phase' = "done" /\ roundDone /\ allValidated /\ WriteLatestToStore(n)
      /\ UNCHANGED <<mvVars, taskVars, worker, queue, toExecute, block, synchronous>>
      BY DEF Inv, Types, Finish, given
<1>2. Tasks' = Tasks /\ n' = n
      BY <1>1 DEF Tasks, n
<1>3. store' \in Contents
  <2>1. n + 1 \in 1..(n + 1)
        BY <1>1 DEF StoreTypes
  <2> QED BY <1>1, <2>1, WriteLatestBefore, BeforeType
<1>4. Types'
      BY <1>1, <1>2, <1>3 DEF Types, StoreTypes, mvVars, taskVars
<1>5. Goroutines' /\ Executions' /\ \A t \in Tasks : worker[t] = idle
      BY <1>1, BetweenRounds
<1>6. Queues'
      BY <1>1, <1>2, <1>5 DEF Queues, isQueue, queued
<1>7. Validations'
      BY <1>1 DEF Validations
<1> QED BY <1>4, <1>5, <1>6, <1>7 DEF Inv

-----------------------------------------------------------------------------
(***************************************************************************)
(* The invariant.                                                          *)
(***************************************************************************)
\* A block has a transaction, every task is pending and the first round
\* executes all of them.
LEMMA InitInv == Init => Inv
<1> SUFFICES ASSUME Init PROVE Inv
    OBVIOUS
<1>1. block \in Seq(Transactions) \ {<<>>} /\ store \in Contents
      BY SchedulerAssumption DEF Init, Transactions, Contents
<1>2. n \in Nat /\ n # 0 /\ Tasks = 1..n /\ 1 \in Tasks
      BY <1>1 DEF n, Tasks
<1>3. StoreTypes
  <2>1. absent \in Items
        BY DEF absent, Items, nil
  <2> QED BY <1>1, <1>2, <2>1 DEF StoreTypes, Init
<1>4. empty \in Reads /\ empty \in Seq(Trackers) /\ empty \in Responses
      BY EmptySets DEF Responses
<1>5. Types
      BY <1>1, <1>3, <1>4 DEF Types, Init, Statuses
<1>6. Goroutines
      BY DEF Goroutines, workerTyped, Init, idle
<1>7. Queues
  <2>1. isQueue(queue)
        BY <1>2, <1>3, QueueFrom DEF Init
  <2>2. isQueue(toExecute)
        BY DEF Init, isQueue
  <2> QED BY <1>2, <2>1, <2>2 DEF Queues, Init
<1>8. Executions
  <2>1. ASSUME NEW t \in Tasks PROVE execution(t)
    <3>1. worker[t].at = "idle" /\ status[t] = "pending" /\ owned(t)
          BY DEF Init, idle, owned
    <3> QED BY <3>1 DEF execution
  <2> QED BY <2>1 DEF Executions
<1>9. Validations
  <2>1. ASSUME NEW t \in Tasks, \A j \in 1..t : status[j] = "validated" PROVE FALSE
    <3>1. t \in 1..t
          BY <1>2
    <3> QED BY <2>1, <3>1 DEF Init
  <2> QED BY <2>1 DEF Validations, Init
<1> QED BY <1>5, <1>6, <1>7, <1>8, <1>9 DEF Inv

\* Every step keeps the invariant.
LEMMA StepInv ==
    ASSUME Inv, Basics, Latest, [Next]_vars PROVE Inv'
<1>1. ASSUME NEW t \in Tasks, TaskStep(t) PROVE Inv'
      BY <1>1, StartExecuteKeeps, AccessKeeps, DeliveredKeeps, RemoveKeyKeeps, SetKeyKeeps,
         EndExecuteKeeps, StartValidateKeeps, CheckKeyKeeps, CheckedKeeps,
         InvalidateKeyKeeps, InvalidatedKeeps, DependencyKeeps
      DEF TaskStep
<1>2. CASE ProcessAll
      BY <1>2, ValidateAllKeeps, NextRoundKeeps, FinishKeeps DEF ProcessAll
<1>3. CASE UNCHANGED vars
  <2>1. /\ UNCHANGED <<store, mv, txWritesetKeys, txReadSets, txIterateSets>>
        /\ UNCHANGED <<status, response, worker, queue, toExecute>>
        /\ UNCHANGED <<block, responses, phase, synchronous>> /\ Tasks' = Tasks /\ n' = n
        BY <1>3 DEF vars, loopVars, given, taskVars, mvVars, Tasks, n
  <2>2. Types'
        BY <2>1 DEF Inv, Types, StoreTypes
  <2>3. Goroutines'
        BY <2>1 DEF Inv, Goroutines, workerTyped
  <2>4. Queues'
        BY <2>1 DEF Inv, Queues, isQueue, queued
  <2>5. ASSUME NEW t \in Tasks PROVE execution(t)'
        BY <2>1, ExecutionSame DEF Inv, Executions, sameTask
  <2>6. ASSUME NEW t \in Tasks PROVE before(t)' = before(t) /\ consistent(t)' = consistent(t)
        BY <2>1 DEF before, latestValue, GetLatestBeforeIndex, consistent
  <2>7. ASSUME NEW t \in Tasks PROVE checking(t, worker[t])' = checking(t, worker[t])
        BY <2>1 DEF checking, before, latestValue, GetLatestBeforeIndex
  <2>8. ASSUME NEW t \in Tasks, validation(t) PROVE validation(t)'
        BY <2>1, <2>6, <2>7, <2>8 DEF validation, cleanBefore, clean, queued
  <2>9. Validations'
        BY <2>1, <2>6, <2>8 DEF Inv, Validations
  <2> QED BY <2>1, <2>2, <2>3, <2>4, <2>5, <2>9 DEF Inv, Executions
<1> QED BY <1>1, <1>2, <1>3 DEF Next
=============================================================================
