----------------------------- MODULE Scheduler -----------------------------
(***************************************************************************)
(* The optimistic scheduler of a block's transactions                      *)
(* (sei-cosmos/tasks/scheduler.go): rounds in which workers execute the    *)
(* tasks of the round on the multi-version store, in parallel, and then    *)
(* validators check, in parallel, what every task from the first           *)
(* unvalidated one on has read; after maximumIterations rounds the rest is *)
(* executed one task at a time.                                            *)
(*                                                                         *)
(* A step is one access of shared state: one read of the multi-version     *)
(* store, one item written, estimated or removed, one status read or set.  *)
(* Two things of several accesses are one step: collecting the keys of the *)
(* lower transactions for an iterator, and the replay of iterations.       *)
(* Task i is the transaction with index i, counted from 1.  Incarnations   *)
(* and conflict keys only feed metrics and are left out.                   *)
(***************************************************************************)
EXTENDS MultiVersionStore

CONSTANTS
    Blocks,            \* the blocks to execute, see SerialBlock
    Stores,            \* the contents of the parent store before
    Workers,
    IterationLimits    \* values of maximumIterations, which is 10 in the code

VARIABLES
    block, maximumIterations,   \* these two do not change
    responses,   \* what ProcessAll returned, empty before
    status, dependencies,   \* of every task
    response,    \* of every task, empty when it has none
    worker,      \* [Tasks -> what the goroutine that has the task is at]
    phase,       \* "execute", "validate" or "done"
    queue,       \* executeCh or validateCh
    toExecute,   \* validateAll's res
    iterations, synchronous

taskVars == <<status, dependencies, response>>
given == <<block, maximumIterations>>
loopVars == <<given, responses, phase, iterations, synchronous>>
vars == <<store, mvVars, taskVars, worker, queue, toExecute, loopVars>>

Serial == INSTANCE SerialBlock

\* ProcessAll has no round for a block without transactions.
ASSUME SchedulerAssumption ==
    /\ Blocks \subseteq Seq(Seq(Serial!Instructions)) \ {<<>>}
    /\ Stores \subseteq [Keys -> Nat]
    /\ IterationLimits \subseteq Nat

Tasks == DOMAIN block
n == Len(block)

idle == [at |-> "idle"]

allValidated == \A t \in Tasks : status[t] = "validated"

findFirstNonValidated == Min({t \in Tasks : status[t] # "validated"})

tasksFrom(t) == [i \in 1..(n - t + 1) |-> t + i - 1]

-----------------------------------------------------------------------------
(* start: a goroutine takes the next task of the channel.  In the          *)
(* synchronous mode the task runs on the goroutine of ProcessAll.          *)

slots == IF synchronous THEN 1
         ELSE IF phase = "validate" \/ Workers < 1 THEN n ELSE Workers

hasSlot == Cardinality({t \in Tasks : worker[t] # idle}) < slots

at(t, w) == worker' = [worker EXCEPT ![t] = w]

invalidated(t) == [k \in Keys |-> IF k \in txWritesetKeys[t] THEN NewEstimateItem ELSE mv[t][k]]

\* executeTask up to deliverTx.  Nothing runs beside a synchronous task.
StartExecute(t) ==
    /\ phase = "execute" /\ queue # <<>> /\ Head(queue) = t /\ hasSlot
    /\ queue' = Tail(queue)
    /\ at(t, [at |-> "run", pc |-> 1, read |-> Serial!nothingRead,
              vs |-> NewVersionIndexedStore, items |-> {}, next |-> nil, left |-> 0])
    /\ IF synchronous /\ status[t] = "validated"
       THEN /\ mv' = [mv EXCEPT ![t] = invalidated(t)]
            /\ txReadSets' = [txReadSets EXCEPT ![t] = empty]
            /\ txIterateSets' = [txIterateSets EXCEPT ![t] = empty]
       ELSE UNCHANGED <<mv, txReadSets, txIterateSets>>
    /\ status' = [status EXCEPT ![t] = IF synchronous THEN "pending" ELSE @]
    /\ response' = [response EXCEPT ![t] = IF synchronous THEN empty ELSE @]
    /\ UNCHANGED <<store, txWritesetKeys, dependencies, toExecute, loopVars>>

-----------------------------------------------------------------------------
(* deliverTx: the accesses of the transaction, one step each.              *)

\* The worker after a read: one that panics with an abort is at its end, with
\* the transaction it depends on in left.
afterRead(w, r, i) ==
    IF r.abort # 0 THEN [w EXCEPT !.pc = 0, !.vs = r.vs, !.left = r.abort]
    ELSE i

GetStep(t, w, k) ==
    LET r == Get(w.vs, t, k)
    IN  afterRead(w, r, [w EXCEPT !.pc = @ + 1, !.vs = r.vs, !.read[k] = r.value])

\* The iterator is created, and then asked for the next key until the limit.
IterStep(t, w, limit) ==
    LET it == iterator(w.vs, t)
    IN  [w EXCEPT !.vs = it.vs, !.items = it.items, !.next = 1, !.left = limit]

endIteration(w, vs, read) ==
    [w EXCEPT !.vs = vs, !.read = read, !.pc = @ + 1, !.items = {}, !.next = nil, !.left = 0]

IterNextStep(t, w) ==
    LET ahead == {k \in ParentKeys \cup w.items : k >= w.next}
        k == Min(ahead)
        r == mergeValue(w.vs, t, w.items, k)
        read == [w.read EXCEPT ![k] = r.value]
    IN  IF ahead = {} THEN endIteration(w, reachedEnd(w.vs), w.read)
        ELSE afterRead(w, r,
            IF r.value = nil THEN [w EXCEPT !.vs = r.vs, !.next = k + 1]
            ELSE IF w.left = 1 THEN endIteration(w, AddKey(r.vs, k), read)
            ELSE [w EXCEPT !.vs = AddKey(r.vs, k), !.read = read,
                           !.next = k + 1, !.left = @ - 1])

\* Writes stay in the writeset of the execution.
WriteStep(w, k, v) == [w EXCEPT !.pc = @ + 1, !.vs = setValue(@, k, v)]

accessStep(t, w) ==
    LET i == block[t][w.pc]
    IN  IF w.next # nil THEN IterNextStep(t, w)
        ELSE CASE i.op = "get" -> GetStep(t, w, i.key)
               [] i.op = "iter" -> IterStep(t, w, i.limit)
               [] i.op = "set" -> WriteStep(w, Serial!written(i, w.read), w.read[i.of] + 1)
               [] i.op = "del" -> WriteStep(w, i.key, nil)

Access(t) ==
    /\ worker[t].at = "run"
    /\ worker[t].pc \in DOMAIN block[t]
    /\ at(t, accessStep(t, worker[t]))
    /\ UNCHANGED <<store, mvVars, taskVars, queue, toExecute, loopVars>>

-----------------------------------------------------------------------------
(* executeTask after deliverTx: the writes, or estimates of them, go to    *)
(* the multi-version store, one key at a time.                             *)

aborted(w) == w.pc = 0

\* Mutant: the old keys stay.
staleKeysKept(t, ws) == {}

\* removeOldWriteset: the old keys that the new writeset does not have.
staleKeys(t, ws) == txWritesetKeys[t] \ ws

Delivered(t) ==
    LET w == worker[t]
        ws == DOMAIN w.vs.writeset
    IN  /\ w.at = "run"
        /\ w.pc \notin DOMAIN block[t]
        /\ status' = [status EXCEPT ![t] = IF aborted(w) THEN "aborted" ELSE "executed"]
        /\ dependencies' = [dependencies EXCEPT ![t] =
                                IF aborted(w) THEN @ \cup {w.left} ELSE @]
        /\ response' = [response EXCEPT ![t] = IF aborted(w) THEN @ ELSE w.read]
        \* removeOldWriteset: LoadAndDelete
        /\ txWritesetKeys' = [txWritesetKeys EXCEPT ![t] = {}]
        /\ at(t, [at |-> "flush", vs |-> w.vs, estimate |-> aborted(w),
                  old |-> staleKeys(t, ws), new |-> ws])
        /\ UNCHANGED <<store, mv, txReadSets, txIterateSets, queue, toExecute, loopVars>>

RemoveKey(t, k) ==
    /\ worker[t].at = "flush" /\ k \in worker[t].old
    /\ mv' = [mv EXCEPT ![t][k] = absent]
    /\ worker' = [worker EXCEPT ![t].old = @ \ {k}]
    /\ UNCHANGED <<store, txWritesetKeys, txReadSets, txIterateSets, taskVars, queue,
                   toExecute, loopVars>>

SetKey(t, k) ==
    /\ worker[t].at = "flush" /\ worker[t].old = {} /\ k \in worker[t].new
    /\ mv' = [mv EXCEPT ![t][k] = IF worker[t].estimate THEN NewEstimateItem
                                  ELSE NewValueItem(worker[t].vs.writeset[k])]
    /\ worker' = [worker EXCEPT ![t].new = @ \ {k}]
    /\ UNCHANGED <<store, txWritesetKeys, txReadSets, txIterateSets, taskVars, queue,
                   toExecute, loopVars>>

recordWriteset(t, w) == txWritesetKeys' = [txWritesetKeys EXCEPT ![t] = DOMAIN w.vs.writeset]

\* An aborted execution leaves the readset and the iterateset as they were.
EndExecute(t) ==
    LET w == worker[t]
    IN  /\ w.at = "flush" /\ w.old = {} /\ w.new = {}
        /\ recordWriteset(t, w)
        /\ txReadSets' = [txReadSets EXCEPT ![t] = IF w.estimate THEN @ ELSE w.vs.readset]
        /\ txIterateSets' =
               [txIterateSets EXCEPT ![t] = IF w.estimate THEN @ ELSE w.vs.iterateset]
        /\ at(t, idle)
        /\ UNCHANGED <<store, mv, taskVars, queue, toExecute, loopVars>>

-----------------------------------------------------------------------------
(* validateTask and shouldRerun.                                           *)

\* Mutant: a validated task is not checked again.
startValidationOnce(t) ==
    CASE status[t] \in {"aborted", "pending"} -> [at |-> "rerun"]
      [] status[t] = "executed" ->
            [at |-> "check", left |-> DOMAIN txReadSets[t],
             valid |-> checkIteratorAtIndex(t), conflicts |-> {}]
      [] status[t] = "validated" -> idle
      [] status[t] = "waiting" -> [at |-> "dependencies", left |-> dependencies[t]]

\* Mutant: a waiting task waits on.
startValidationForgetsWaiting(t) ==
    CASE status[t] \in {"aborted", "pending"} -> [at |-> "rerun"]
      [] status[t] \in {"executed", "validated"} ->
            [at |-> "check", left |-> DOMAIN txReadSets[t],
             valid |-> checkIteratorAtIndex(t), conflicts |-> {}]
      [] status[t] = "waiting" -> idle

\* The status decides; what was read is checked key by key.
startValidation(t) ==
    CASE status[t] \in {"aborted", "pending"} -> [at |-> "rerun"]
      [] status[t] \in {"executed", "validated"} ->
            [at |-> "check", left |-> DOMAIN txReadSets[t],
             valid |-> checkIteratorAtIndex(t), conflicts |-> {}]
      [] status[t] = "waiting" -> [at |-> "dependencies", left |-> dependencies[t]]

StartValidate(t) ==
    /\ phase = "validate" /\ queue # <<>> /\ Head(queue) = t /\ hasSlot
    /\ queue' = Tail(queue)
    /\ at(t, startValidation(t))
    /\ UNCHANGED <<store, mvVars, taskVars, toExecute, loopVars>>

CheckKey(t, k) ==
    /\ worker[t].at = "check" /\ k \in worker[t].left
    /\ LET c == checkReadset(t, k)
       IN  worker' = [worker EXCEPT ![t].left = @ \ {k},
                                    ![t].valid = @ /\ c.valid,
                                    ![t].conflicts = @ \cup c.conflicts]
    /\ UNCHANGED <<store, mvVars, taskVars, queue, toExecute, loopVars>>

\* Valid and no conflicts: validated.  Valid with conflicts: as it was.
Checked(t) ==
    LET w == worker[t]
    IN  /\ w.at = "check" /\ w.left = {}
        /\ IF w.valid
           THEN /\ status' = [status EXCEPT ![t] = IF w.conflicts = {} THEN "validated" ELSE @]
                /\ at(t, idle)
           ELSE /\ at(t, [at |-> "invalidate", left |-> txWritesetKeys[t],
                          conflicts |-> w.conflicts])
                /\ UNCHANGED status
        /\ UNCHANGED <<store, mvVars, dependencies, response, queue, toExecute, loopVars>>

InvalidateKey(t, k) ==
    /\ worker[t].at = "invalidate" /\ k \in worker[t].left
    /\ mv' = [mv EXCEPT ![t][k] = NewEstimateItem]
    /\ worker' = [worker EXCEPT ![t].left = @ \ {k}]
    /\ UNCHANGED <<store, txWritesetKeys, txReadSets, txIterateSets, taskVars, queue,
                   toExecute, loopVars>>

Invalidated(t) ==
    LET w == worker[t]
        deps == dependencies[t] \cup w.conflicts
    IN  /\ w.at = "invalidate" /\ w.left = {}
        /\ txReadSets' = [txReadSets EXCEPT ![t] = empty]
        /\ txIterateSets' = [txIterateSets EXCEPT ![t] = empty]
        /\ dependencies' = [dependencies EXCEPT ![t] = deps]
        /\ at(t, [at |-> "dependencies", left |-> deps])
        /\ UNCHANGED <<store, mv, txWritesetKeys, status, response, queue, toExecute, loopVars>>

\* dependenciesValidated: one that is not ends the loop, and the task waits.
CheckDependency(t, d) ==
    /\ worker[t].at = "dependencies" /\ d \in worker[t].left
    /\ IF status[d] = "validated"
       THEN /\ worker' = [worker EXCEPT ![t].left = @ \ {d}]
            /\ UNCHANGED status
       ELSE /\ status' = [status EXCEPT ![t] = "waiting"]
            /\ at(t, idle)
    /\ UNCHANGED <<store, mvVars, dependencies, response, queue, toExecute, loopVars>>

DependenciesValidated(t) ==
    /\ worker[t].at = "dependencies" /\ worker[t].left = {}
    /\ at(t, [at |-> "rerun"])
    /\ UNCHANGED <<store, mvVars, taskVars, queue, toExecute, loopVars>>

\* validateAll: Reset, and the task is executed in the next round.
Rerun(t) ==
    /\ worker[t].at = "rerun"
    /\ status' = [status EXCEPT ![t] = "pending"]
    /\ response' = [response EXCEPT ![t] = empty]
    /\ toExecute' = Append(toExecute, t)
    /\ at(t, idle)
    /\ UNCHANGED <<store, mvVars, dependencies, queue, loopVars>>

-----------------------------------------------------------------------------
(* ProcessAll.                                                             *)

roundDone == queue = <<>> /\ \A t \in Tasks : worker[t] = idle

\* executeAll has returned: every task from the first unvalidated one on is
\* validated.  Executed tasks are not validated, so there is one.
ValidateAll ==
    /\ phase = "execute" /\ roundDone
    /\ phase' = "validate"
    /\ queue' = tasksFrom(findFirstNonValidated)
    /\ toExecute' = <<>>
    /\ UNCHANGED <<store, mvVars, taskVars, worker, given, responses, iterations, synchronous>>

\* Mutant: a synchronous round executes only the tasks to rerun.
roundTasksToRerun(sync) == toExecute

\* The tasks that the next round executes.
roundTasks(sync) == IF sync THEN tasksFrom(findFirstNonValidated) ELSE toExecute

\* Bound: the counter stops two above maximumIterations, with which alone it
\* is compared.
nextIteration == Min({iterations + 1, maximumIterations + 2})

NextRound ==
    /\ phase = "validate" /\ roundDone /\ ~allValidated
    /\ iterations' = nextIteration
    /\ synchronous' = (iterations' >= maximumIterations)
    /\ phase' = "execute"
    /\ queue' = roundTasks(synchronous')
    /\ UNCHANGED <<store, mvVars, taskVars, worker, toExecute, given, responses>>

collectResponses == [t \in Tasks |-> response[t]]

Finish ==
    /\ phase = "validate" /\ roundDone /\ allValidated
    /\ WriteLatestToStore(n)
    /\ responses' = collectResponses
    /\ phase' = "done"
    /\ iterations' = nextIteration
    /\ UNCHANGED <<mvVars, taskVars, worker, queue, toExecute, given, synchronous>>

Init ==
    /\ block \in Blocks
    /\ maximumIterations \in IterationLimits
    /\ store \in Stores
    /\ mv = [t \in Tasks |-> [k \in Keys |-> absent]]
    /\ txWritesetKeys = [t \in Tasks |-> {}]
    /\ txReadSets = [t \in Tasks |-> empty]
    /\ txIterateSets = [t \in Tasks |-> empty]
    /\ status = [t \in Tasks |-> "pending"]
    /\ dependencies = [t \in Tasks |-> {}]
    /\ response = [t \in Tasks |-> empty]
    /\ responses = <<>>
    /\ worker = [t \in Tasks |-> idle]
    /\ phase = "execute"
    /\ queue = tasksFrom(1)
    /\ toExecute = <<>>
    /\ iterations = 0
    /\ synchronous = (maximumIterations = 0)

TaskStep(t) ==
    \/ StartExecute(t)
    \/ Access(t)
    \/ Delivered(t)
    \/ \E k \in Keys : RemoveKey(t, k)
    \/ \E k \in Keys : SetKey(t, k)
    \/ EndExecute(t)
    \/ StartValidate(t)
    \/ \E k \in Keys : CheckKey(t, k)
    \/ Checked(t)
    \/ \E k \in Keys : InvalidateKey(t, k)
    \/ Invalidated(t)
    \/ \E d \in Tasks : CheckDependency(t, d)
    \/ DependenciesValidated(t)
    \/ Rerun(t)

ProcessAll == ValidateAll \/ NextRound \/ Finish

Next == ProcessAll \/ \E t \in Tasks : TaskStep(t)

Spec == Init /\ [][Next]_vars

\* Go schedules every goroutine: some step is taken while one is possible.
FairSpec == Spec /\ WF_vars(Next)

-----------------------------------------------------------------------------
(* Properties.                                                             *)

\* Whatever the workers and validators interleave, the store and the
\* responses that ProcessAll leaves are those of executing the transactions
\* one after the other (WriteLatestToStore, collectResponses).
SerialSpec == Serial!Spec

\* ProcessAll returns: no set of conflicts keeps aborting, waiting or
\* invalidating tasks for ever.
Terminates == <>(phase = "done")

\* A task is validated at most two rounds after all the tasks before it: one
\* in which it learns that its dependencies are validated, and one in which
\* it is executed on validated transactions only (shouldRerun, validateAll).
RoundBound ==
    phase = "execute" => iterations <= 2 * (findFirstNonValidated - 1)

\* One synchronous round validates every task that is left, so that ProcessAll
\* executes at most maximumIterations + 1 rounds (ProcessAll, executeTask).
OneSynchronousRound == iterations <= maximumIterations + 1

\* Between rounds an estimate stands for a write of a task that will be
\* executed again, under a key that the next writeset of the task removes or
\* replaces: no reader waits for a write that nobody makes.
EstimatesOwned ==
    roundDone =>
        \A t \in Tasks, k \in Keys :
            IsEstimate(mv[t][k]) => status[t] # "validated" /\ k \in txWritesetKeys[t]
=============================================================================
