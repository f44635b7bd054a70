---------------------------- MODULE TaskExecutor ----------------------------
(***************************************************************************)
(* The task executor and the task groups (runtime/runtime.tn, executor*   *)
(* and taskGroup*; std/async.tn, TaskGroup).                               *)
(*                                                                         *)
(* A task group counts its unfinished tasks under its own mutex; the       *)
(* executor keeps a queue and a pool of detached workers under another.    *)
(* All these functions lock first and read the state afterwards, so one    *)
(* critical section is one step here.  A worker runs a task body to its    *)
(* end (asyncWait polls once, synchronously); a body may itself open a     *)
(* task group, spawn into it and close it.  Each group is used by the code *)
(* that opened it: a main thread of its own, or the body of a task.        *)
(***************************************************************************)
EXTENDS Integers, Sequences, FiniteSets

CONSTANTS Tasks, Groups,
          Workers,       \* worker threads that can come to exist
          MaxWorkers,    \* the 64 of executorEnqueue
          GroupOf,       \* the group each task is spawned into
          OpenedBy,      \* the task whose body opens a group, or NoTask
          NoTask,
          StartMayFail   \* pthread_create or its allocation may fail

ASSUME ExecutorConstants ==
    /\ MaxWorkers \in Nat \ {0}
    /\ GroupOf \in [Tasks -> Groups]
    /\ OpenedBy \in [Groups -> Tasks \cup {NoTask}]
    /\ NoTask \notin Tasks
    /\ StartMayFail \in BOOLEAN

VARIABLES queue,        \* queueHead .. queueTail
          workerCount,  \* ExecutorState.workerCount
          idleWorkers,  \* ExecutorState.idleWorkers
          worker,       \* what each worker thread is doing
          taken,        \* the task a busy worker works on
          stage,        \* how far each task has come
          outcome,      \* its promise: "none", "done" or "cancelled"
          group,        \* the memory of each group: "none", "open", "freed"
          active,       \* TaskGroupState.active
          cancelled,    \* TaskGroupState.cancelled
          closing,      \* TaskGroupState.closing
          allTasks,     \* TaskGroupState.allTasks
          opener,       \* where the code that opened each group is
          spawning,     \* the task it is spawning
          aborted       \* TaskGroup.spawn aborts the process on a refusal

execVars == <<queue, workerCount, idleWorkers>>
workVars == <<worker, taken>>
taskVars == <<stage, outcome>>
groupVars == <<group, active, cancelled, closing, allTasks>>
openVars == <<opener, spawning>>
vars == <<execVars, workVars, taskVars, groupVars, openVars, aborted>>

WorkerStates == {"unborn", "lock", "sleep", "woken", "busy"}
Stages == {"none", "pushed", "queued", "taken", "run", "cancel", "finish",
           "complete", "released"}
OpenerStates == {"none", "open", "enqueue", "start", "poll", "wait",
                 "wait_sleep", "wait_woken", "release", "closed"}

TypeOK ==
    /\ queue \in Seq(Tasks)
    /\ workerCount \in 0 .. MaxWorkers
    /\ idleWorkers \in Nat
    /\ worker \in [Workers -> WorkerStates]
    /\ taken \in [Workers -> Tasks \cup {NoTask}]
    /\ stage \in [Tasks -> Stages]
    /\ outcome \in [Tasks -> {"none", "done", "cancelled"}]
    /\ group \in [Groups -> {"none", "open", "freed"}]
    /\ active \in [Groups -> Nat]
    /\ cancelled \in [Groups -> BOOLEAN]
    /\ closing \in [Groups -> BOOLEAN]
    /\ allTasks \in [Groups -> SUBSET Tasks]
    /\ opener \in [Groups -> OpenerStates]
    /\ spawning \in [Groups -> Tasks \cup {NoTask}]
    /\ aborted \in BOOLEAN

Init ==
    /\ queue = <<>>
    /\ workerCount = 0
    /\ idleWorkers = 0
    /\ worker = [w \in Workers |-> "unborn"]
    /\ taken = [w \in Workers |-> NoTask]
    /\ stage = [t \in Tasks |-> "none"]
    /\ outcome = [t \in Tasks |-> "none"]
    /\ group = [g \in Groups |-> "none"]
    /\ active = [g \in Groups |-> 0]
    /\ cancelled = [g \in Groups |-> FALSE]
    /\ closing = [g \in Groups |-> FALSE]
    /\ allTasks = [g \in Groups |-> {}]
    /\ opener = [g \in Groups |-> "none"]
    /\ spawning = [g \in Groups |-> NoTask]
    /\ aborted = FALSE

-----------------------------------------------------------------------------
(* The code that opened a group. *)

OpenerAt(g, place) == ~aborted /\ opener[g] = place

OpenerGoto(g, place) == opener' = [opener EXCEPT ![g] = place]

\* The body of task t is done with every group it opened.
GroupsClosed(t) ==
    \A g \in Groups : OpenedBy[g] = t => opener[g] \in {"none", "closed"}

\* taskGroupCreate; its opener is a main thread or a running task body.
TaskGroupCreate(g) ==
    /\ OpenerAt(g, "none")
    /\ OpenedBy[g] # NoTask => stage[OpenedBy[g]] = "run"
    /\ group' = [group EXCEPT ![g] = "open"]
    /\ OpenerGoto(g, "open")
    /\ UNCHANGED <<execVars, workVars, taskVars, active, cancelled, closing,
                   allTasks, spawning, aborted>>

\* taskGroupCancel: only tasks that no worker has looked at yet are affected.
TaskGroupCancel(g) ==
    /\ OpenerAt(g, "open")
    /\ cancelled' = [cancelled EXCEPT ![g] = TRUE]
    /\ UNCHANGED <<execVars, workVars, taskVars, group, active, closing,
                   allTasks, openVars, aborted>>

\* taskGroupSpawn refuses on a cancelled or closing group; TaskGroup.spawn
\* then aborts the process.
SpawnRefused(g, t) ==
    /\ OpenerAt(g, "open")
    /\ GroupOf[t] = g /\ stage[t] = "none"
    /\ cancelled[g] \/ closing[g]
    /\ aborted' = TRUE
    /\ UNCHANGED <<execVars, workVars, taskVars, groupVars, openVars>>

\* taskGroupSpawn, under the group's mutex.
SpawnAttach(g, t) ==
    /\ OpenerAt(g, "open")
    /\ GroupOf[t] = g /\ stage[t] = "none"
    /\ ~cancelled[g] /\ ~closing[g]
    /\ allTasks' = [allTasks EXCEPT ![g] = @ \cup {t}]
    /\ active' = [active EXCEPT ![g] = @ + 1]
    /\ stage' = [stage EXCEPT ![t] = "pushed"]
    /\ spawning' = [spawning EXCEPT ![g] = t]
    /\ OpenerGoto(g, "enqueue")
    /\ UNCHANGED <<execVars, workVars, outcome, group, cancelled, closing, aborted>>

\* conditionSignal wakes one sleeping worker, if there is one.
Signal ==
    LET sleepers == {w \in Workers : worker[w] = "sleep"} IN
    IF sleepers = {}
    THEN worker' = worker
    ELSE \E w \in sleepers : worker' = [worker EXCEPT ![w] = "woken"]

\* Mutant: no conditionSignal.
ExecutorEnqueueSilent(g) ==
    /\ OpenerAt(g, "enqueue")
    /\ queue' = Append(queue, spawning[g])
    /\ stage' = [stage EXCEPT ![spawning[g]] = "queued"]
    /\ IF idleWorkers = 0 /\ workerCount < MaxWorkers
       THEN workerCount' = workerCount + 1 /\ OpenerGoto(g, "start")
       ELSE workerCount' = workerCount /\ OpenerGoto(g, "open")
    /\ worker' = worker
    /\ spawning' = [spawning EXCEPT ![g] = NoTask]
    /\ UNCHANGED <<idleWorkers, taken, outcome, groupVars, aborted>>

\* executorEnqueue, under the executor's mutex.
ExecutorEnqueue(g) ==
    /\ OpenerAt(g, "enqueue")
    /\ queue' = Append(queue, spawning[g])
    /\ stage' = [stage EXCEPT ![spawning[g]] = "queued"]
    /\ IF idleWorkers = 0 /\ workerCount < MaxWorkers
       THEN workerCount' = workerCount + 1 /\ OpenerGoto(g, "start")
       ELSE workerCount' = workerCount /\ OpenerGoto(g, "open")
    /\ Signal
    /\ spawning' = [spawning EXCEPT ![g] = NoTask]
    /\ UNCHANGED <<idleWorkers, taken, outcome, groupVars, aborted>>

\* executorStartWorker, after the executor's mutex is released.
ExecutorStartWorker(g, w) ==
    /\ OpenerAt(g, "start")
    /\ worker[w] = "unborn"
    /\ worker' = [worker EXCEPT ![w] = "lock"]
    /\ OpenerGoto(g, "open")
    /\ UNCHANGED <<execVars, taken, taskVars, groupVars, spawning, aborted>>

\* Its failure is ignored by executorEnqueue; workerCount keeps the unit.
ExecutorStartFails(g) ==
    /\ StartMayFail
    /\ OpenerAt(g, "start")
    /\ OpenerGoto(g, "open")
    /\ UNCHANGED <<execVars, workVars, taskVars, groupVars, spawning, aborted>>

-----------------------------------------------------------------------------
(* executorWorker. *)

\* A worker that holds the mutex with a task in the queue: queueHead is taken.
WorkerTakes(w) ==
    /\ ~aborted
    /\ worker[w] \in {"lock", "woken"}
    /\ queue # <<>>
    /\ queue' = Tail(queue)
    /\ idleWorkers' = IF worker[w] = "woken" THEN idleWorkers - 1 ELSE idleWorkers
    /\ worker' = [worker EXCEPT ![w] = "busy"]
    /\ taken' = [taken EXCEPT ![w] = Head(queue)]
    /\ stage' = [stage EXCEPT ![Head(queue)] = "taken"]
    /\ UNCHANGED <<workerCount, outcome, groupVars, openVars, aborted>>

\* An empty queue: idleWorkers is raised and conditionWait releases the mutex
\* (a worker that was woken lowers it first).
WorkerSleeps(w) ==
    /\ ~aborted
    /\ worker[w] \in {"lock", "woken"}
    /\ queue = <<>>
    /\ idleWorkers' = IF worker[w] = "woken" THEN idleWorkers ELSE idleWorkers + 1
    /\ worker' = [worker EXCEPT ![w] = "sleep"]
    /\ UNCHANGED <<queue, workerCount, taken, taskVars, groupVars, openVars, aborted>>

\* pthread_cond_wait may return without a signal.
SpuriousWake(w) ==
    /\ ~aborted
    /\ worker[w] = "sleep"
    /\ worker' = [worker EXCEPT ![w] = "woken"]
    /\ UNCHANGED <<execVars, taken, taskVars, groupVars, openVars, aborted>>

BusyAt(w, step) ==
    ~aborted /\ worker[w] = "busy" /\ stage[taken[w]] = step

\* The group's `cancelled` is read once, before the body.
WorkerReadsCancelled(w) ==
    /\ BusyAt(w, "taken")
    /\ stage' = [stage EXCEPT ![taken[w]] =
                    IF cancelled[GroupOf[taken[w]]] THEN "cancel" ELSE "run"]
    /\ UNCHANGED <<execVars, workVars, outcome, groupVars, openVars, aborted>>

\* asyncCancelQueued: the body never runs.
WorkerCancels(w) ==
    /\ BusyAt(w, "cancel")
    /\ outcome' = [outcome EXCEPT ![taken[w]] = "cancelled"]
    /\ stage' = [stage EXCEPT ![taken[w]] = "finish"]
    /\ UNCHANGED <<execVars, workVars, groupVars, openVars, aborted>>

\* asyncWait returns: the body has ended, its groups with it.
WorkerEndsBody(w) ==
    /\ BusyAt(w, "run")
    /\ GroupsClosed(taken[w])
    /\ outcome' = [outcome EXCEPT ![taken[w]] = "done"]
    /\ stage' = [stage EXCEPT ![taken[w]] = "finish"]
    /\ UNCHANGED <<execVars, workVars, groupVars, openVars, aborted>>

\* conditionBroadcast on the group's condition.
Broadcast(g) ==
    opener' = [opener EXCEPT ![g] = IF @ = "wait_sleep" THEN "wait_woken" ELSE @]

\* Mutant: a cancelled task is not subtracted.
WorkerCompletesUncancelled(w) ==
    LET g == GroupOf[taken[w]] IN
    /\ BusyAt(w, "finish")
    /\ active' = [active EXCEPT ![g] = IF @ # 0 /\ outcome[taken[w]] = "done" THEN @ - 1 ELSE @]
    /\ Broadcast(g)
    /\ stage' = [stage EXCEPT ![taken[w]] = "complete"]
    /\ worker' = [worker EXCEPT ![w] = "lock"]
    /\ taken' = [taken EXCEPT ![w] = NoTask]
    /\ UNCHANGED <<execVars, outcome, group, cancelled, closing, allTasks,
                   spawning, aborted>>

\* The group's count goes down and its waiter is told; back to the queue.
WorkerCompletes(w) ==
    LET g == GroupOf[taken[w]] IN
    /\ BusyAt(w, "finish")
    /\ active' = [active EXCEPT ![g] = IF @ # 0 THEN @ - 1 ELSE @]
    /\ Broadcast(g)
    /\ stage' = [stage EXCEPT ![taken[w]] = "complete"]
    /\ worker' = [worker EXCEPT ![w] = "lock"]
    /\ taken' = [taken EXCEPT ![w] = NoTask]
    /\ UNCHANGED <<execVars, outcome, group, cancelled, closing, allTasks,
                   spawning, aborted>>

-----------------------------------------------------------------------------
(* TaskGroup.close: poll taskGroupIsComplete, then taskGroupWait and        *)
(* taskGroupDestroy.                                                        *)

TaskGroupIsComplete(g) ==
    /\ ~aborted /\ opener[g] \in {"open", "poll"}
    /\ closing' = [closing EXCEPT ![g] = TRUE]
    /\ OpenerGoto(g, IF active[g] = 0 THEN "wait" ELSE "poll")
    /\ UNCHANGED <<execVars, workVars, taskVars, group, active, cancelled,
                   allTasks, spawning, aborted>>

\* Mutant: the wait loop is missing.
TaskGroupWaitNot(g) ==
    /\ ~aborted /\ opener[g] \in {"open", "wait", "wait_woken"}
    /\ closing' = [closing EXCEPT ![g] = TRUE]
    /\ OpenerGoto(g, "release")
    /\ UNCHANGED <<execVars, workVars, taskVars, group, active, cancelled,
                   allTasks, spawning, aborted>>

\* taskGroupWait; a caller of the runtime may come here without polling.  It
\* sleeps while `active` is not 0, then takes the list of all tasks.
TaskGroupWait(g) ==
    /\ ~aborted /\ opener[g] \in {"open", "wait", "wait_woken"}
    /\ closing' = [closing EXCEPT ![g] = TRUE]
    /\ OpenerGoto(g, IF active[g] = 0 THEN "release" ELSE "wait_sleep")
    /\ UNCHANGED <<execVars, workVars, taskVars, group, active, cancelled,
                   allTasks, spawning, aborted>>

SpuriousGroupWake(g) ==
    /\ OpenerAt(g, "wait_sleep")
    /\ OpenerGoto(g, "wait_woken")
    /\ UNCHANGED <<execVars, workVars, taskVars, groupVars, spawning, aborted>>

\* The group's reference to one promise and its list node go.
ReleaseTask(g, t) ==
    /\ OpenerAt(g, "release")
    /\ t \in allTasks[g]
    /\ allTasks' = [allTasks EXCEPT ![g] = @ \ {t}]
    /\ stage' = [stage EXCEPT ![t] = "released"]
    /\ UNCHANGED <<execVars, workVars, outcome, group, active, cancelled,
                   closing, openVars, aborted>>

\* taskGroupDestroy: wait again (nothing is left), then free.
TaskGroupDestroy(g) ==
    /\ OpenerAt(g, "release")
    /\ allTasks[g] = {}
    /\ active[g] = 0
    /\ group' = [group EXCEPT ![g] = "freed"]
    /\ OpenerGoto(g, "closed")
    /\ UNCHANGED <<execVars, workVars, taskVars, active, cancelled, closing,
                   allTasks, spawning, aborted>>

-----------------------------------------------------------------------------
WorkerStep(w) ==
    \/ WorkerTakes(w) \/ WorkerSleeps(w) \/ WorkerReadsCancelled(w)
    \/ WorkerCancels(w) \/ WorkerEndsBody(w) \/ WorkerCompletes(w)

\* Steps of a call that has begun: spawning or closing.
OpenerStep(g) ==
    \/ ExecutorEnqueue(g)
    \/ \E w \in Workers : ExecutorStartWorker(g, w)
    \/ ExecutorStartFails(g)
    \/ opener[g] = "poll" /\ TaskGroupIsComplete(g)
    \/ opener[g] \in {"wait", "wait_woken"} /\ TaskGroupWait(g)
    \/ \E t \in Tasks : ReleaseTask(g, t)
    \/ TaskGroupDestroy(g)

OpenerCalls(g) ==
    \/ TaskGroupCreate(g) \/ TaskGroupCancel(g)
    \/ \E t \in Tasks : SpawnAttach(g, t) \/ SpawnRefused(g, t)
    \/ opener[g] = "open" /\ TaskGroupIsComplete(g)
    \/ opener[g] = "open" /\ TaskGroupWait(g)

\* A program closes the groups it opens (await using).
OpenerCloses(g) == opener[g] = "open" /\ TaskGroupIsComplete(g)

Next ==
    \/ \E g \in Groups : OpenerStep(g) \/ OpenerCalls(g) \/ SpuriousGroupWake(g)
    \/ \E w \in Workers : WorkerStep(w) \/ SpuriousWake(w)

Spec == Init /\ [][Next]_vars

\* Threads keep running; task bodies end once their groups are closed; every
\* group is closed by its opener at some time.
Fairness ==
    /\ \A w \in Workers : WF_vars(WorkerStep(w))
    /\ \A g \in Groups : WF_vars(OpenerStep(g)) /\ WF_vars(OpenerCloses(g))

FairSpec == Spec /\ Fairness

-----------------------------------------------------------------------------
\* Tasks that a group counts and that no worker has completed.
Unfinished(g) ==
    {t \in Tasks : GroupOf[t] = g
                     /\ stage[t] \in {"pushed", "queued", "taken", "run",
                                      "cancel", "finish"}}

Idle == {w \in Workers : worker[w] \in {"sleep", "woken"}}
Woken == {w \in Workers : worker[w] = "woken"}
Starting == {g \in Groups : opener[g] = "start"}

\* `active` is the number of tasks spawned and not completed, whatever the
\* order in which workers, spawns and cancellations get the mutexes.
ActiveCountsUnfinished == \A g \in Groups : active[g] = Cardinality(Unfinished(g))

\* Group exit: memory of a group is freed only when each of its tasks that
\* was spawned has run to its end or was cancelled before it started.
ExitAfterChildren ==
    \A g \in Groups : group[g] = "freed" =>
        \A t \in Tasks : GroupOf[t] = g /\ stage[t] # "none"
            => outcome[t] # "none" /\ stage[t] = "released"

\* A worker that still has a task to complete, or a queue that still holds
\* one, finds the task's group and its list node allocated.
NoUseAfterFree ==
    /\ \A w \in Workers : worker[w] = "busy" =>
          /\ group[GroupOf[taken[w]]] = "open"
          /\ taken[w] \in allTasks[GroupOf[taken[w]]]
    /\ \A i \in 1 .. Len(queue) :
          /\ group[GroupOf[queue[i]]] = "open"
          /\ queue[i] \in allTasks[GroupOf[queue[i]]]

\* idleWorkers counts the workers inside conditionWait, and workerCount
\* covers every worker that exists or is about to.
PoolCounted ==
    /\ idleWorkers = Cardinality(Idle)
    /\ workerCount >= Cardinality({w \in Workers : worker[w] # "unborn"})
                        + Cardinality(Starting)

\* No lost wake-up: while some worker sleeps without a signal, every queued
\* task has a signalled worker of its own.
NoLostWakeup ==
    Idle # Woken => Len(queue) <= Cardinality(Woken)

\* A task is run by at most one worker, and queued at most once.
OneWorkerPerTask ==
    /\ \A v, w \in Workers : worker[v] = "busy" /\ worker[w] = "busy"
                               /\ taken[v] = taken[w] => v = w
    /\ \A i, j \in 1 .. Len(queue) : queue[i] = queue[j] => i = j

\* A task that was cancelled before it ran never runs, and one that ran to
\* its end stays done.
OutcomeIsFinal ==
    [][\A t \in Tasks : outcome[t] # "none" => outcome'[t] = outcome[t]]_vars

\* A worker was counted that does not exist and is not about to.
StartFailed ==
    workerCount > Cardinality({w \in Workers : worker[w] # "unborn"})
                    + Cardinality(Starting)

\* Every group that was opened ends up closed: await group.close() returns, unless
\* the process is aborted or could not start a thread.
GroupsClose ==
    <>[](aborted \/ StartFailed \/ \A g \in Groups : opener[g] \in {"none", "closed"})

\* Every spawned task ends up completed by some worker, whatever the order of
\* signals, waits and cancellations, under the same conditions.
TasksComplete ==
    <>[](aborted \/ StartFailed \/ \A t \in Tasks : stage[t] \in {"none", "complete", "released"})
=============================================================================
