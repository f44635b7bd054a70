------------------------- MODULE TaskExecutorProofs -------------------------
(* Proofs about TaskExecutor, for any set of tasks, groups and workers, any  *)
(* nesting of groups and any limit on the pool.                             *)
EXTENDS TaskExecutor, FiniteSetTheorems, TLAPS

\* A task is known to its group from its spawn to the release of its node.
Listed == Stages \ {"none", "released"}
InHand == {"taken", "run", "cancel", "finish"}
Over == {"finish", "complete", "released"}

\* The queue holds the queued tasks, each once.
QueueHoldsQueued ==
    /\ \A i, j \in 1 .. Len(queue) : queue[i] = queue[j] => i = j
    /\ \A i \in 1 .. Len(queue) : stage[queue[i]] = "queued"

\* A busy worker has a task in its hands that no other worker has.
WorkersHoldTasks ==
    /\ \A w \in Workers : worker[w] = "busy" =>
           taken[w] \in Tasks /\ stage[taken[w]] \in InHand
    /\ \A v, w \in Workers : worker[v] = "busy" /\ worker[w] = "busy"
                               /\ taken[v] = taken[w] => v = w

\* A task between taskGroupSpawn and executorEnqueue is in one spawner's hands.
SpawnersHoldTasks ==
    \A g \in Groups : opener[g] = "enqueue" =>
        spawning[g] \in Tasks /\ GroupOf[spawning[g]] = g /\ stage[spawning[g]] = "pushed"

\* The list of a group is that of its tasks that were spawned and not released.
ListsHoldSpawned ==
    \A g \in Groups : allTasks[g] = {t \in Tasks : GroupOf[t] = g /\ stage[t] \in Listed}

\* The memory of a group follows the calls of its opener.
GroupsFollowOpeners ==
    \A g \in Groups :
        /\ group[g] = IF opener[g] = "none" THEN "none"
                      ELSE IF opener[g] = "closed" THEN "freed" ELSE "open"
        /\ group[g] # "open" => allTasks[g] = {}
        /\ opener[g] = "release" => active[g] = 0

\* A promise has an outcome once its task is to be completed.
OutcomesFollowStages == \A t \in Tasks : outcome[t] # "none" <=> stage[t] \in Over

Places ==
    /\ QueueHoldsQueued
    /\ WorkersHoldTasks
    /\ SpawnersHoldTasks
    /\ ListsHoldSpawned
    /\ GroupsFollowOpeners
    /\ OutcomesFollowStages

\* What the counters count is finite: it grows one by one.
Born == {w \in Workers : worker[w] # "unborn"}
Finite ==
    /\ \A g \in Groups : IsFiniteSet(Unfinished(g))
    /\ IsFiniteSet(Idle) /\ IsFiniteSet(Born) /\ IsFiniteSet(Starting)
Counters == Finite /\ ActiveCountsUnfinished /\ PoolCounted /\ NoLostWakeup

(* The inductive invariant.                                                 *)
IInv == TypeOK /\ Places /\ Counters

-----------------------------------------------------------------------------
\* How a finite set and its size change together.
LEMMA OneMore ==
    ASSUME NEW S, IsFiniteSet(S), NEW x, x \notin S
    PROVE  /\ IsFiniteSet(S \cup {x})
           /\ Cardinality(S) \in Nat
           /\ Cardinality(S \cup {x}) = Cardinality(S) + 1
  BY FS_AddElement, FS_CardinalityType

LEMMA OneLess ==
    ASSUME NEW S, IsFiniteSet(S), NEW x, x \in S
    PROVE  /\ IsFiniteSet(S \ {x})
           /\ Cardinality(S) \in Nat \ {0}
           /\ Cardinality(S \ {x}) = Cardinality(S) - 1
  <1>1. IsFiniteSet(S \ {x}) /\ Cardinality(S \ {x}) = Cardinality(S) - 1
    BY FS_RemoveElement
  <1>2. Cardinality(S) \in Nat /\ Cardinality(S \ {x}) \in Nat
    BY <1>1, FS_CardinalityType
  <1> QED
    BY <1>1, <1>2

\* Before anything is spawned.
LEMMA InitInv == Init => IInv
  <1> SUFFICES ASSUME Init PROVE IInv
    OBVIOUS
  <1>1. TypeOK
    <2>1. 0 \in 0 .. MaxWorkers
      BY ExecutorConstants
    <2>2. stage \in [Tasks -> Stages]
      BY DEF Init, Stages
    <2>3. opener \in [Groups -> OpenerStates]
      BY DEF Init, OpenerStates
    <2>4. worker \in [Workers -> WorkerStates]
      BY DEF Init, WorkerStates
    <2>5. aborted \in BOOLEAN /\ cancelled \in [Groups -> BOOLEAN] /\ closing \in [Groups -> BOOLEAN]
      BY Zenon DEF Init
    <2>6. queue \in Seq(Tasks) /\ idleWorkers \in Nat /\ workerCount \in 0 .. MaxWorkers
      BY <2>1 DEF Init
    <2>7. /\ taken \in [Workers -> Tasks \cup {NoTask}]
          /\ outcome \in [Tasks -> {"none", "done", "cancelled"}]
          /\ group \in [Groups -> {"none", "open", "freed"}]
          /\ active \in [Groups -> Nat]
          /\ allTasks \in [Groups -> SUBSET Tasks]
          /\ spawning \in [Groups -> Tasks \cup {NoTask}]
      BY DEF Init
    <2> QED
      BY <2>2, <2>3, <2>4, <2>5, <2>6, <2>7 DEF TypeOK
  <1>2. Places
    BY DEF Init, Places, QueueHoldsQueued, WorkersHoldTasks, SpawnersHoldTasks,
       ListsHoldSpawned, GroupsFollowOpeners, OutcomesFollowStages, Listed, Over, InHand, Stages
  <1>3. /\ \A g \in Groups : Unfinished(g) = {}
        /\ Idle = {} /\ Born = {} /\ Starting = {} /\ Woken = {}
    BY DEF Init, Unfinished, Idle, Born, Starting, Woken
  <1>4. IsFiniteSet({}) /\ Cardinality({}) = 0
    BY FS_EmptySet
  <1>5. Cardinality({w \in Workers : worker[w] # "unborn"}) = 0
    BY <1>3, <1>4 DEF Born
  <1>6. Counters
    <2>1. Finite /\ NoLostWakeup
      BY <1>3, <1>4 DEF Finite, NoLostWakeup
    <2>2. ActiveCountsUnfinished
      BY <1>3, <1>4 DEF Init, ActiveCountsUnfinished
    <2>3. PoolCounted
      BY <1>3, <1>4, <1>5 DEF Init, PoolCounted
    <2> QED
      BY <2>1, <2>2, <2>3 DEF Counters
  <1> QED
    BY <1>1, <1>2, <1>6 DEF IInv

\* The tasks of the groups are counted as before.
LEMMA TasksCountedAsBefore ==
    ASSUME Counters, active' = active, \A g \in Groups : Unfinished(g)' = Unfinished(g)
    PROVE  (\A g \in Groups : IsFiniteSet(Unfinished(g)))' /\ ActiveCountsUnfinished'
  BY DEF Counters, Finite, ActiveCountsUnfinished

\* So are the workers.
LEMMA WorkersCountedAsBefore ==
    ASSUME Counters, UNCHANGED execVars, Idle' = Idle, Woken' = Woken, Born' = Born,
           Starting' = Starting
    PROVE  /\ IsFiniteSet(Idle)' /\ IsFiniteSet(Born)' /\ IsFiniteSet(Starting)'
           /\ PoolCounted' /\ NoLostWakeup'
  BY DEF Counters, Finite, PoolCounted, NoLostWakeup, Born, execVars

\* Calls of an opener that touch no task and no worker.
LEMMA OpenerInv ==
    ASSUME IInv, NEW g \in Groups,
           \/ TaskGroupCreate(g) \/ TaskGroupCancel(g) \/ \E t \in Tasks : SpawnRefused(g, t)
           \/ TaskGroupIsComplete(g) \/ TaskGroupWait(g) \/ SpuriousGroupWake(g)
           \/ TaskGroupDestroy(g)
    PROVE  IInv'
  <1> USE DEF OpenerAt, OpenerGoto, execVars, workVars, taskVars, groupVars, openVars
  <1>1. UNCHANGED <<execVars, workVars, taskVars, spawning, active, allTasks>>
    BY DEF TaskGroupCreate, TaskGroupCancel, SpawnRefused, TaskGroupIsComplete,
       TaskGroupWait, SpuriousGroupWake, TaskGroupDestroy
  <1> DEFINE Kept == {"start", "enqueue"}
             Typed == /\ opener' \in [Groups -> OpenerStates]
                      /\ group' \in [Groups -> {"none", "open", "freed"}]
                      /\ cancelled' \in [Groups -> BOOLEAN] /\ closing' \in [Groups -> BOOLEAN]
                      /\ aborted' \in BOOLEAN
             Apart == \A h \in Groups : opener'[h] # opener[h] => opener[h] \notin Kept /\ opener'[h] \notin Kept
  <1>2. Typed /\ Apart /\ GroupsFollowOpeners'
    <2> USE DEF IInv, TypeOK, OpenerStates, Places, GroupsFollowOpeners
    <2>1. CASE TaskGroupCreate(g)
      BY <2>1 DEF TaskGroupCreate
    <2>2. CASE TaskGroupCancel(g)
      BY <2>2 DEF TaskGroupCancel
    <2>3. CASE \E t \in Tasks : SpawnRefused(g, t)
      BY <2>3 DEF SpawnRefused
    <2>4. CASE TaskGroupIsComplete(g)
      BY <2>4 DEF TaskGroupIsComplete
    <2>5. CASE TaskGroupWait(g)
      BY <2>5 DEF TaskGroupWait
    <2>6. CASE SpuriousGroupWake(g)
      BY <2>6 DEF SpuriousGroupWake
    <2>7. CASE TaskGroupDestroy(g)
      BY <2>7 DEF TaskGroupDestroy
    <2> QED
      BY <2>1, <2>2, <2>3, <2>4, <2>5, <2>6, <2>7
  <1>3. TypeOK'
    BY <1>1, <1>2 DEF IInv, TypeOK
  <1>4. SpawnersHoldTasks'
    BY <1>1, <1>2 DEF IInv, Places, SpawnersHoldTasks
  <1>5. QueueHoldsQueued' /\ WorkersHoldTasks' /\ ListsHoldSpawned' /\ OutcomesFollowStages'
    BY <1>1 DEF IInv, Places, QueueHoldsQueued, WorkersHoldTasks, ListsHoldSpawned,
       OutcomesFollowStages
  <1>6. /\ \A h \in Groups : Unfinished(h)' = Unfinished(h)
        /\ Idle' = Idle /\ Woken' = Woken /\ Born' = Born /\ Starting' = Starting
    BY <1>1, <1>2 DEF Unfinished, Idle, Woken, Born, Starting
  <1>7. Counters'
    BY <1>1, <1>6, TasksCountedAsBefore, WorkersCountedAsBefore DEF IInv, Counters, Finite
  <1> QED
    BY <1>2, <1>3, <1>4, <1>5, <1>7 DEF IInv, Places

\* taskGroupSpawn: one more task, which the group counts and lists.
LEMMA SpawnInv ==
    ASSUME IInv, NEW g \in Groups, NEW t \in Tasks, SpawnAttach(g, t)
    PROVE  IInv'
  <1> USE DEF SpawnAttach, OpenerAt, OpenerGoto, execVars, workVars
  <1>1. TypeOK'
    BY DEF IInv, TypeOK, Stages, OpenerStates
  <1>2. /\ stage[t] = "none" /\ stage' = [stage EXCEPT ![t] = "pushed"]
        /\ opener[g] = "open" /\ opener' = [opener EXCEPT ![g] = "enqueue"]
        /\ UNCHANGED <<queue, worker, taken, outcome, group, idleWorkers, workerCount>>
        /\ stage \in [Tasks -> Stages] /\ opener \in [Groups -> OpenerStates]
    BY DEF IInv, TypeOK
  <1>3. QueueHoldsQueued' /\ WorkersHoldTasks' /\ OutcomesFollowStages'
    BY <1>2 DEF IInv, TypeOK, Places, QueueHoldsQueued, WorkersHoldTasks, OutcomesFollowStages,
       InHand, Over
  <1>4. SpawnersHoldTasks'
    BY DEF IInv, TypeOK, Places, SpawnersHoldTasks
  <1>5. ListsHoldSpawned'
    BY DEF IInv, TypeOK, Places, ListsHoldSpawned, Listed, Stages
  <1>6. GroupsFollowOpeners'
    BY DEF IInv, TypeOK, Places, GroupsFollowOpeners
  <1>7. /\ Unfinished(g)' = Unfinished(g) \cup {t} /\ t \notin Unfinished(g)
        /\ \A h \in Groups \ {g} : Unfinished(h)' = Unfinished(h)
    BY <1>2 DEF Unfinished
  <1>8. (\A h \in Groups : IsFiniteSet(Unfinished(h)))' /\ ActiveCountsUnfinished'
    <2>1. /\ IsFiniteSet(Unfinished(g)')
          /\ Cardinality(Unfinished(g)') = Cardinality(Unfinished(g)) + 1
      BY <1>7, OneMore DEF IInv, Counters, Finite
    <2>2. active' = [active EXCEPT ![g] = @ + 1] /\ active \in [Groups -> Nat]
      BY DEF IInv, TypeOK
    <2> QED
      BY <1>7, <2>1, <2>2 DEF IInv, Counters, Finite, ActiveCountsUnfinished
  <1>9. Idle' = Idle /\ Woken' = Woken /\ Born' = Born /\ Starting' = Starting
    BY <1>2 DEF Idle, Woken, Born, Starting
  <1>10. Counters'
    BY <1>2, <1>8, <1>9, WorkersCountedAsBefore DEF IInv, Counters, Finite, execVars
  <1> QED
    BY <1>1, <1>3, <1>4, <1>5, <1>6, <1>10 DEF IInv, Places

\* conditionSignal wakes one sleeper, or finds none.
LEMMA SignalInv ==
    ASSUME TypeOK, IsFiniteSet(Idle), Signal
    PROVE  /\ worker' \in [Workers -> WorkerStates]
           /\ Idle' = Idle /\ Born' = Born
           /\ \A w \in Workers : worker[w] = "busy" <=> worker'[w] = "busy"
           /\ Idle' # Woken' => Cardinality(Woken') >= Cardinality(Woken) + 1
  <1> DEFINE sleepers == {w \in Workers : worker[w] = "sleep"}
  <1>1. CASE sleepers = {}
    <2>1. worker' = worker
      BY <1>1 DEF Signal
    <2>2. Idle' = Woken'
      BY <1>1, <2>1 DEF Idle, Woken
    <2> QED
      BY <2>1, <2>2 DEF TypeOK, Idle, Born
  <1>2. CASE sleepers # {}
    <2>1. PICK w \in sleepers : worker' = [worker EXCEPT ![w] = "woken"]
      BY <1>2 DEF Signal
    <2>2. Woken' = Woken \cup {w} /\ w \notin Woken /\ Woken \subseteq Idle
      BY <2>1 DEF TypeOK, Woken, Idle
    <2>3. IsFiniteSet(Woken)
      BY <2>2, FS_Subset
    <2>4. Cardinality(Woken') = Cardinality(Woken) + 1 /\ Cardinality(Woken) \in Nat
      BY <2>2, <2>3, OneMore
    <2> QED
      BY <2>1, <2>4 DEF TypeOK, Idle, Born, WorkerStates
  <1> QED
    BY <1>1, <1>2

\* executorEnqueue: the task is queued, and a worker signalled or started.
LEMMA EnqueueInv ==
    ASSUME IInv, NEW g \in Groups, ExecutorEnqueue(g)
    PROVE  IInv'
  <1> DEFINE t == spawning[g]
  <1> USE DEF ExecutorEnqueue, OpenerAt, OpenerGoto, groupVars
  <1>1. /\ opener[g] = "enqueue" /\ t \in Tasks /\ GroupOf[t] = g /\ stage[t] = "pushed"
        /\ queue' = Append(queue, t) /\ queue \in Seq(Tasks)
        /\ stage' = [stage EXCEPT ![t] = "queued"] /\ stage \in [Tasks -> Stages]
        /\ UNCHANGED <<idleWorkers, taken, outcome, group, active, allTasks>>
    <2>1. /\ opener[g] = "enqueue" /\ queue' = Append(queue, t)
          /\ stage' = [stage EXCEPT ![t] = "queued"]
          /\ UNCHANGED <<idleWorkers, taken, outcome, group, active, allTasks>>
      OBVIOUS
    <2> QED
      BY <2>1 DEF IInv, TypeOK, Places, SpawnersHoldTasks
  <1>2. /\ worker' \in [Workers -> WorkerStates]
        /\ Idle' = Idle /\ Born' = Born
        /\ \A w \in Workers : worker[w] = "busy" <=> worker'[w] = "busy"
        /\ Idle' # Woken' => Cardinality(Woken') >= Cardinality(Woken) + 1
    BY SignalInv DEF IInv, Counters, Finite
  <1>3. \/ workerCount' = workerCount + 1 /\ workerCount < MaxWorkers
           /\ opener' = [opener EXCEPT ![g] = "start"]
        \/ workerCount' = workerCount /\ opener' = [opener EXCEPT ![g] = "open"]
    OBVIOUS
  <1>4. workerCount' \in 0 .. MaxWorkers /\ opener' \in [Groups -> OpenerStates]
    <2>1. workerCount \in 0 .. MaxWorkers /\ opener \in [Groups -> OpenerStates]
      BY DEF IInv, TypeOK
    <2>2. workerCount' \in 0 .. MaxWorkers
      BY <1>3, <2>1, ExecutorConstants
    <2>3. opener' \in [Groups -> OpenerStates]
      BY <1>3, <2>1 DEF OpenerStates
    <2> QED
      BY <2>2, <2>3
  <1>5. TypeOK'
    BY <1>1, <1>2, <1>4 DEF IInv, TypeOK, Stages
  <1>6. QueueHoldsQueued'
    <2>1. /\ Len(queue') = Len(queue) + 1 /\ queue'[Len(queue) + 1] = t /\ Len(queue) \in Nat
          /\ \A i \in 1 .. Len(queue) : queue'[i] = queue[i] /\ queue[i] \in Tasks
      BY <1>1
    <2>2. \A i \in 1 .. Len(queue) : queue[i] # t /\ stage[queue[i]] = "queued"
      BY <1>1 DEF IInv, Places, QueueHoldsQueued
    <2>3. \A i \in 1 .. Len(queue') : stage'[queue'[i]] = "queued"
      BY <1>1, <2>1, <2>2
    <2>4. ASSUME NEW i \in 1 .. Len(queue'), NEW j \in 1 .. Len(queue'), queue'[i] = queue'[j]
          PROVE  i = j
      BY <2>1, <2>2, <2>4 DEF IInv, Places, QueueHoldsQueued
    <2> QED
      BY <2>3, <2>4 DEF QueueHoldsQueued
  <1>7. WorkersHoldTasks'
    BY <1>1, <1>2 DEF IInv, Places, WorkersHoldTasks, InHand
  <1>8. SpawnersHoldTasks'
    BY <1>1, <1>3 DEF IInv, TypeOK, Places, SpawnersHoldTasks
  <1>9. ListsHoldSpawned' /\ OutcomesFollowStages'
    BY <1>1 DEF IInv, TypeOK, Places, ListsHoldSpawned, OutcomesFollowStages, Listed, Over, Stages
  <1>10. GroupsFollowOpeners'
    BY <1>1, <1>3 DEF IInv, TypeOK, Places, GroupsFollowOpeners
  <1>11. \A h \in Groups : Unfinished(h)' = Unfinished(h)
    BY <1>1 DEF Unfinished
  <1>12. PoolCounted' /\ IsFiniteSet(Starting')
    <2>1. CASE workerCount' = workerCount /\ opener' = [opener EXCEPT ![g] = "open"]
      <3>1. Starting' = Starting
        BY <1>1, <2>1 DEF IInv, TypeOK, Starting
      <3> QED
        BY <1>1, <1>2, <2>1, <3>1 DEF IInv, Counters, Finite, PoolCounted, Born
    <2>2. CASE workerCount' = workerCount + 1 /\ opener' = [opener EXCEPT ![g] = "start"]
      <3>1. Starting' = Starting \cup {g} /\ g \notin Starting
        BY <1>1, <2>2 DEF IInv, TypeOK, Starting
      <3>2. IsFiniteSet(Starting') /\ Cardinality(Starting') = Cardinality(Starting) + 1
        BY <3>1, OneMore DEF IInv, Counters, Finite
      <3>3. /\ Cardinality(Born) \in Nat /\ Cardinality(Starting) \in Nat
            /\ workerCount \in Nat /\ workerCount >= Cardinality(Born) + Cardinality(Starting)
        BY FS_CardinalityType DEF IInv, TypeOK, Counters, Finite, PoolCounted, Born
      <3>4. workerCount' >= Cardinality(Born') + Cardinality(Starting')
        BY <1>2, <2>2, <3>2, <3>3
      <3>5. idleWorkers' = Cardinality(Idle')
        BY <1>1, <1>2 DEF IInv, Counters, PoolCounted
      <3> QED
        BY <3>2, <3>4, <3>5 DEF PoolCounted, Born
    <2> QED
      BY <1>3, <2>1, <2>2
  <1>13. NoLostWakeup'
    <2> SUFFICES ASSUME Idle' # Woken' PROVE Len(queue') <= Cardinality(Woken')
      BY DEF NoLostWakeup
    <2>1. Idle # Woken
      <3>1. CASE {w \in Workers : worker[w] = "sleep"} = {}
        <4>1. worker' = worker
          BY <3>1 DEF Signal
        <4> QED
          BY <4>1 DEF Idle, Woken
      <3>2. CASE {w \in Workers : worker[w] = "sleep"} # {}
        BY <3>2 DEF Idle, Woken
      <3> QED
        BY <3>1, <3>2
    <2>2. Len(queue) <= Cardinality(Woken)
      BY <2>1 DEF IInv, Counters, NoLostWakeup
    <2>3. Woken \subseteq Idle /\ Woken' \subseteq Idle'
      BY DEF Woken, Idle
    <2>4. Cardinality(Woken) \in Nat /\ Cardinality(Woken') \in Nat
      BY <1>2, <2>3, FS_Subset, FS_CardinalityType DEF IInv, Counters, Finite
    <2>5. Len(queue') = Len(queue) + 1 /\ Len(queue) \in Nat
      BY <1>1
    <2> QED
      BY <1>2, <2>2, <2>4, <2>5
  <1>14. Counters'
    BY <1>1, <1>2, <1>11, <1>12, <1>13, TasksCountedAsBefore DEF IInv, Counters, Finite
  <1> QED
    BY <1>5, <1>6, <1>7, <1>8, <1>9, <1>10, <1>14 DEF IInv, Places

\* executorStartWorker: a worker that was counted begins, or never will.
LEMMA StartInv ==
    ASSUME IInv, NEW g \in Groups,
           ExecutorStartFails(g) \/ \E w \in Workers : ExecutorStartWorker(g, w)
    PROVE  IInv'
  <1> USE DEF OpenerAt, OpenerGoto
  <1>1. /\ opener[g] = "start" /\ opener' = [opener EXCEPT ![g] = "open"]
        /\ opener \in [Groups -> OpenerStates]
        /\ UNCHANGED <<execVars, taken, taskVars, groupVars, spawning, aborted>>
    BY DEF ExecutorStartFails, ExecutorStartWorker, workVars, IInv, TypeOK
  <1>2. /\ Starting' = Starting \ {g} /\ g \in Starting
        /\ SpawnersHoldTasks' /\ GroupsFollowOpeners'
    BY <1>1 DEF Starting, IInv, Places, SpawnersHoldTasks, GroupsFollowOpeners, taskVars, groupVars
  <1>3. QueueHoldsQueued' /\ ListsHoldSpawned' /\ OutcomesFollowStages'
    BY <1>1 DEF IInv, Places, QueueHoldsQueued, ListsHoldSpawned, OutcomesFollowStages,
       execVars, taskVars, groupVars
  <1>4. /\ IsFiniteSet(Starting') /\ IsFiniteSet(Starting)
        /\ Cardinality(Starting) \in Nat /\ Cardinality(Starting') = Cardinality(Starting) - 1
    BY <1>2, OneLess DEF IInv, Counters, Finite
  <1>5. /\ Cardinality(Born) \in Nat /\ IsFiniteSet(Born)
        /\ workerCount \in Nat /\ workerCount >= Cardinality(Born) + Cardinality(Starting)
    BY FS_CardinalityType DEF IInv, TypeOK, Counters, Finite, PoolCounted, Born
  <1>6. \A h \in Groups : Unfinished(h)' = Unfinished(h)
    BY <1>1 DEF Unfinished, taskVars
  <1>7. CASE ExecutorStartFails(g)
    <2>1. worker' = worker
      BY <1>7 DEF ExecutorStartFails, workVars
    <2>2. TypeOK' /\ WorkersHoldTasks'
      BY <1>1, <2>1 DEF IInv, TypeOK, Places, WorkersHoldTasks, OpenerStates,
         execVars, taskVars, groupVars
    <2>3. Idle' = Idle /\ Woken' = Woken /\ Born' = Born
      BY <2>1 DEF Idle, Woken, Born
    <2>4. workerCount' >= Cardinality(Born') + Cardinality(Starting')
      BY <1>1, <1>4, <1>5, <2>3 DEF execVars
    <2>5. PoolCounted' /\ NoLostWakeup'
      BY <1>1, <2>3, <2>4 DEF IInv, Counters, PoolCounted, NoLostWakeup, Born, execVars
    <2>6. Counters'
      BY <1>1, <1>4, <1>6, <2>3, <2>5, TasksCountedAsBefore
         DEF IInv, Counters, Finite, groupVars
    <2> QED
      BY <1>2, <1>3, <2>2, <2>6 DEF IInv, Places
  <1>8. ASSUME NEW w \in Workers, ExecutorStartWorker(g, w) PROVE IInv'
    <2>1. worker[w] = "unborn" /\ worker' = [worker EXCEPT ![w] = "lock"]
      BY <1>8 DEF ExecutorStartWorker
    <2>2. TypeOK' /\ WorkersHoldTasks'
      BY <1>1, <2>1 DEF IInv, TypeOK, Places, WorkersHoldTasks, OpenerStates, WorkerStates,
         execVars, taskVars, groupVars
    <2>3. /\ Idle' = Idle /\ Woken' = Woken
          /\ Born' = Born \cup {w} /\ w \notin Born
      BY <2>1 DEF IInv, TypeOK, Idle, Woken, Born
    <2>4. IsFiniteSet(Born') /\ Cardinality(Born') = Cardinality(Born) + 1
      BY <1>5, <2>3, OneMore
    <2>5. workerCount' >= Cardinality(Born') + Cardinality(Starting')
      BY <1>1, <1>4, <1>5, <2>4 DEF execVars
    <2>6. PoolCounted' /\ NoLostWakeup'
      BY <1>1, <2>3, <2>5 DEF IInv, Counters, PoolCounted, NoLostWakeup, Born, execVars
    <2>7. Counters'
      BY <1>1, <1>4, <1>6, <2>3, <2>4, <2>6, TasksCountedAsBefore
         DEF IInv, Counters, Finite, groupVars
    <2> QED
      BY <1>2, <1>3, <2>2, <2>7 DEF IInv, Places
  <1> QED
    BY <1>7, <1>8

-----------------------------------------------------------------------------
\* A worker with the mutex takes the head of the queue.
LEMMA TakeInv ==
    ASSUME IInv, NEW w \in Workers, WorkerTakes(w)
    PROVE  IInv'
  <1> DEFINE t == Head(queue)
  <1> USE DEF WorkerTakes, groupVars, openVars
  <1>1. /\ queue \in Seq(Tasks) /\ queue # <<>> /\ queue' = Tail(queue)
        /\ worker[w] \in {"lock", "woken"} /\ worker' = [worker EXCEPT ![w] = "busy"]
        /\ taken' = [taken EXCEPT ![w] = t] /\ stage' = [stage EXCEPT ![t] = "taken"]
        /\ UNCHANGED <<workerCount, outcome, group, active, cancelled, closing, allTasks,
                       opener, spawning, aborted>>
    BY DEF IInv, TypeOK
  <1>2. /\ Len(queue) \in Nat /\ Len(queue) >= 1 /\ t = queue[1] /\ t \in Tasks
        /\ Len(queue') = Len(queue) - 1 /\ queue' \in Seq(Tasks)
        /\ \A i \in 1 .. Len(queue') : queue'[i] = queue[i + 1] /\ queue[i] \in Tasks
    BY <1>1
  <1>3. stage[t] = "queued" /\ \A i \in 1 .. Len(queue) : queue[i] = t => i = 1
    BY <1>2 DEF IInv, Places, QueueHoldsQueued
  <1>4. QueueHoldsQueued'
    <2>1. \A i \in 1 .. Len(queue') : i + 1 \in 1 .. Len(queue) /\ i + 1 # 1
      BY <1>2
    <2>2. \A i \in 1 .. Len(queue') : queue'[i] # t /\ stage[queue'[i]] = "queued"
      BY <1>2, <1>3, <2>1 DEF IInv, Places, QueueHoldsQueued
    <2>3. \A i \in 1 .. Len(queue') : stage'[queue'[i]] = "queued"
      BY <1>1, <2>2 DEF IInv, TypeOK
    <2>4. \A i, j \in 1 .. Len(queue') : queue'[i] = queue'[j] => i + 1 = j + 1
      BY <1>2, <2>1 DEF IInv, Places, QueueHoldsQueued
    <2>5. \A i, j \in 1 .. Len(queue') : i + 1 = j + 1 => i = j
      BY <1>2
    <2> QED
      BY <2>3, <2>4, <2>5 DEF QueueHoldsQueued
  <1>5. WorkersHoldTasks'
    <2>1. /\ \A v \in Workers \ {w} : worker'[v] = worker[v] /\ taken'[v] = taken[v]
          /\ worker'[w] = "busy" /\ taken'[w] = t /\ stage'[t] = "taken"
          /\ \A u \in Tasks \ {t} : stage'[u] = stage[u]
      BY <1>1, <1>2 DEF IInv, TypeOK
    <2>2. \A v \in Workers \ {w} : worker[v] = "busy" => taken[v] \in Tasks \ {t}
      BY <1>3 DEF IInv, Places, WorkersHoldTasks, InHand
    <2> QED
      BY <1>2, <2>1, <2>2 DEF IInv, Places, WorkersHoldTasks, InHand
  <1>6. SpawnersHoldTasks' /\ ListsHoldSpawned' /\ OutcomesFollowStages'
    BY <1>1, <1>2, <1>3 DEF IInv, TypeOK, Places, SpawnersHoldTasks, ListsHoldSpawned,
       OutcomesFollowStages, Listed, Over, Stages
  <1>7. GroupsFollowOpeners'
    BY <1>1 DEF IInv, Places, GroupsFollowOpeners
  <1>8. /\ \A h \in Groups : Unfinished(h)' = Unfinished(h)
        /\ Born' = Born /\ Starting' = Starting
    BY <1>1, <1>2, <1>3 DEF IInv, TypeOK, Unfinished, Born, Starting
  <1>9. IsFiniteSet(Idle) /\ idleWorkers = Cardinality(Idle)
    BY DEF IInv, Counters, Finite, PoolCounted
  <1>10. IsFiniteSet(Idle') /\ idleWorkers' = Cardinality(Idle') /\ idleWorkers' \in Nat /\ NoLostWakeup'
    <2>1. CASE worker[w] = "lock"
      <3>1. Idle' = Idle /\ Woken' = Woken /\ idleWorkers' = idleWorkers
        BY <1>1, <2>1 DEF Idle, Woken, IInv, TypeOK
      <3>2. Woken \subseteq Idle
        BY DEF Woken, Idle
      <3>3. Cardinality(Woken) \in Nat
        BY <1>9, <3>2, FS_Subset, FS_CardinalityType
      <3>4. NoLostWakeup'
        BY <1>2, <3>1, <3>3 DEF IInv, Counters, NoLostWakeup
      <3> QED
        BY <1>9, <3>1, <3>4 DEF IInv, TypeOK
    <2>2. CASE worker[w] = "woken"
      <3>1. /\ Idle' = Idle \ {w} /\ Woken' = Woken \ {w} /\ idleWorkers' = idleWorkers - 1
            /\ w \in Idle /\ w \in Woken /\ Woken \subseteq Idle
        BY <1>1, <2>2 DEF Idle, Woken, IInv, TypeOK
      <3>2. IsFiniteSet(Idle') /\ Cardinality(Idle') = Cardinality(Idle) - 1 /\ Cardinality(Idle) \in Nat \ {0}
        BY <1>9, <3>1, OneLess
      <3>3. IsFiniteSet(Woken)
        BY <1>9, <3>1, FS_Subset
      <3>4. Cardinality(Woken') = Cardinality(Woken) - 1 /\ Cardinality(Woken) \in Nat \ {0}
        BY <3>1, <3>3, OneLess
      <3>5. Idle' # Woken' => Idle # Woken
        BY <3>1
      <3>6. NoLostWakeup'
        BY <1>2, <3>4, <3>5 DEF IInv, Counters, NoLostWakeup
      <3> QED
        BY <1>9, <3>1, <3>2, <3>6
    <2> QED
      BY <1>1, <2>1, <2>2
  <1>11. TypeOK'
    BY <1>1, <1>2, <1>10 DEF IInv, TypeOK, WorkerStates, Stages
  <1>12. Counters'
    BY <1>1, <1>8, <1>10, TasksCountedAsBefore DEF IInv, Counters, Finite, PoolCounted, Born
  <1> QED
    BY <1>4, <1>5, <1>6, <1>7, <1>11, <1>12 DEF IInv, Places

\* Going to sleep and waking up.
LEMMA SleepInv ==
    ASSUME IInv, NEW w \in Workers, WorkerSleeps(w) \/ SpuriousWake(w)
    PROVE  IInv'
  <1>1. UNCHANGED <<queue, workerCount, taken, taskVars, groupVars, openVars, aborted>>
    BY DEF WorkerSleeps, SpuriousWake, execVars
  <1>2. Places'
    <2>1. \A v \in Workers : worker'[v] = "busy" => worker[v] = "busy"
      BY DEF WorkerSleeps, SpuriousWake, IInv, TypeOK
    <2>2. WorkersHoldTasks'
      BY <1>1, <2>1 DEF IInv, Places, WorkersHoldTasks, taskVars
    <2>3. QueueHoldsQueued' /\ SpawnersHoldTasks' /\ ListsHoldSpawned'
      BY <1>1 DEF IInv, Places, QueueHoldsQueued, SpawnersHoldTasks, ListsHoldSpawned,
         taskVars, groupVars, openVars
    <2>4. GroupsFollowOpeners' /\ OutcomesFollowStages'
      BY <1>1 DEF IInv, Places, GroupsFollowOpeners, OutcomesFollowStages,
         taskVars, groupVars, openVars
    <2> QED
      BY <2>2, <2>3, <2>4 DEF Places
  <1>3. \A h \in Groups : Unfinished(h)' = Unfinished(h)
    BY <1>1 DEF Unfinished, taskVars
  <1>4. Born' = Born /\ Starting' = Starting
    BY <1>1 DEF WorkerSleeps, SpuriousWake, Born, Starting, openVars, IInv, TypeOK
  <1>5. IsFiniteSet(Idle) /\ idleWorkers = Cardinality(Idle) /\ Cardinality(Idle) \in Nat
    BY FS_CardinalityType DEF IInv, Counters, Finite, PoolCounted
  <1>6. Woken \subseteq Idle /\ Woken' \subseteq Idle'
    BY DEF Woken, Idle
  <1>7. IsFiniteSet(Woken) /\ Cardinality(Woken) \in Nat
    BY <1>5, <1>6, FS_Subset, FS_CardinalityType
  <1>8. IsFiniteSet(Idle') /\ idleWorkers' = Cardinality(Idle') /\ idleWorkers' \in Nat /\ NoLostWakeup'
    <2>1. CASE WorkerSleeps(w)
      <3>1. IsFiniteSet(Idle') /\ idleWorkers' = Cardinality(Idle')
        <4>1. CASE worker[w] = "woken"
          <5>1. Idle' = Idle /\ idleWorkers' = idleWorkers
            BY <2>1, <4>1 DEF WorkerSleeps, Idle, IInv, TypeOK
          <5> QED
            BY <1>5, <5>1
        <4>2. CASE worker[w] = "lock"
          <5>1. Idle' = Idle \cup {w} /\ w \notin Idle /\ idleWorkers' = idleWorkers + 1
            BY <2>1, <4>2 DEF WorkerSleeps, Idle, IInv, TypeOK
          <5> QED
            BY <1>5, <5>1, OneMore
        <4> QED
          BY <2>1, <4>1, <4>2 DEF WorkerSleeps
      <3>2. IsFiniteSet(Woken') /\ Cardinality(Woken') \in Nat
        BY <1>6, <3>1, FS_Subset, FS_CardinalityType
      <3>3. Len(queue') = 0
        BY <2>1 DEF WorkerSleeps
      <3>4. NoLostWakeup'
        BY <3>2, <3>3 DEF NoLostWakeup
      <3> QED
        BY <3>1, <3>4, FS_CardinalityType
    <2>2. CASE SpuriousWake(w)
      <3>1. Idle' = Idle /\ Woken' = Woken \cup {w} /\ w \notin Woken /\ w \in Idle
        BY <2>2 DEF SpuriousWake, Idle, Woken, IInv, TypeOK
      <3>2. Cardinality(Woken') = Cardinality(Woken) + 1
        BY <1>7, <3>1, OneMore
      <3>3. queue' = queue /\ idleWorkers' = idleWorkers /\ queue \in Seq(Tasks)
        BY <2>2 DEF SpuriousWake, execVars, IInv, TypeOK
      <3>4. Len(queue) <= Cardinality(Woken) /\ Len(queue) \in Nat
        BY <3>1, <3>3 DEF IInv, Counters, NoLostWakeup
      <3>5. NoLostWakeup'
        BY <1>7, <3>2, <3>3, <3>4 DEF NoLostWakeup
      <3> QED
        BY <1>5, <3>1, <3>3, <3>5
    <2> QED
      BY <2>1, <2>2
  <1>9. worker' \in [Workers -> WorkerStates]
    BY DEF WorkerSleeps, SpuriousWake, WorkerStates, IInv, TypeOK
  <1>10. TypeOK'
    BY <1>1, <1>8, <1>9 DEF IInv, TypeOK, taskVars, groupVars, openVars
  <1>11. Counters'
    BY <1>1, <1>3, <1>4, <1>8, TasksCountedAsBefore
       DEF IInv, Counters, Finite, PoolCounted, Born, groupVars
  <1> QED
    BY <1>2, <1>10, <1>11 DEF IInv

\* Between the queue and completion a task stays in its worker's hands.
LEMMA HandInv ==
    ASSUME IInv, NEW w \in Workers,
           WorkerReadsCancelled(w) \/ WorkerCancels(w) \/ WorkerEndsBody(w)
    PROVE  IInv'
  <1> DEFINE t == taken[w]
  <1> USE DEF BusyAt, workVars, groupVars, openVars
  <1>1. /\ worker[w] = "busy" /\ t \in Tasks /\ GroupOf[t] \in Groups
        /\ UNCHANGED <<execVars, workVars, groupVars, openVars, aborted>>
    BY ExecutorConstants DEF WorkerReadsCancelled, WorkerCancels, WorkerEndsBody,
       IInv, Places, WorkersHoldTasks
  <1>2. PICK s \in InHand : stage' = [stage EXCEPT ![t] = s]
    BY DEF WorkerReadsCancelled, WorkerCancels, WorkerEndsBody, InHand
  <1>3. stage[t] \in InHand \ {"finish"} /\ stage \in [Tasks -> Stages]
        /\ outcome \in [Tasks -> {"none", "done", "cancelled"}]
    BY DEF WorkerReadsCancelled, WorkerCancels, WorkerEndsBody, InHand, IInv, TypeOK
  <1>4. /\ outcome' \in [Tasks -> {"none", "done", "cancelled"}]
        /\ \A u \in Tasks \ {t} : outcome'[u] = outcome[u]
        /\ outcome'[t] # "none" <=> s \in Over
    <2>1. CASE WorkerReadsCancelled(w)
      <3>1. outcome' = outcome /\ s \in {"cancel", "run"}
        BY <1>1, <1>2, <1>3, <2>1 DEF WorkerReadsCancelled
      <3>2. outcome[t] = "none"
        BY <1>1, <1>3 DEF IInv, Places, OutcomesFollowStages, InHand, Over
      <3> QED
        BY <1>3, <3>1, <3>2 DEF Over
    <2>2. CASE WorkerCancels(w)
      BY <1>1, <1>2, <1>3, <2>2 DEF WorkerCancels, Over
    <2>3. CASE WorkerEndsBody(w)
      BY <1>1, <1>2, <1>3, <2>3 DEF WorkerEndsBody, Over
    <2> QED
      BY <2>1, <2>2, <2>3
  <1>5. TypeOK'
    BY <1>1, <1>2, <1>4 DEF IInv, TypeOK, InHand, Stages, execVars
  <1>6. QueueHoldsQueued' /\ WorkersHoldTasks'
    BY <1>1, <1>2, <1>3 DEF IInv, Places, QueueHoldsQueued, WorkersHoldTasks, InHand, execVars
  <1>7. SpawnersHoldTasks' /\ ListsHoldSpawned'
    BY <1>1, <1>2, <1>3 DEF IInv, Places, SpawnersHoldTasks, ListsHoldSpawned, InHand, Listed, Stages
  <1>8. GroupsFollowOpeners' /\ OutcomesFollowStages'
    BY <1>1, <1>2, <1>3, <1>4 DEF IInv, Places, GroupsFollowOpeners, OutcomesFollowStages
  <1>9. /\ \A h \in Groups : Unfinished(h)' = Unfinished(h)
        /\ Idle' = Idle /\ Woken' = Woken /\ Born' = Born /\ Starting' = Starting
    BY <1>1, <1>2, <1>3 DEF Unfinished, InHand, Idle, Woken, Born, Starting
  <1>10. Counters'
    BY <1>1, <1>9, TasksCountedAsBefore, WorkersCountedAsBefore DEF IInv, Counters, Finite
  <1> QED
    BY <1>5, <1>6, <1>7, <1>8, <1>10 DEF IInv, Places

\* A task is completed: its group counts one less.
LEMMA CompleteInv ==
    ASSUME IInv, NEW w \in Workers, WorkerCompletes(w)
    PROVE  IInv'
  <1>1. PICK t \in Tasks, g \in Groups :
           /\ t = taken[w] /\ g = GroupOf[t]
           /\ worker[w] = "busy" /\ stage[t] = "finish"
           /\ stage' = [stage EXCEPT ![t] = "complete"] /\ stage \in [Tasks -> Stages]
           /\ worker' = [worker EXCEPT ![w] = "lock"] /\ worker \in [Workers -> WorkerStates]
           /\ taken' = [taken EXCEPT ![w] = NoTask]
           /\ active' = [active EXCEPT ![g] = IF @ # 0 THEN @ - 1 ELSE @]
           /\ opener' = [opener EXCEPT ![g] = IF @ = "wait_sleep" THEN "wait_woken" ELSE @]
           /\ UNCHANGED <<execVars, outcome, group, cancelled, closing, allTasks, spawning, aborted>>
    <2> DEFINE t == taken[w]
               g == GroupOf[t]
    <2>1. t \in Tasks /\ g \in Groups
      BY ExecutorConstants DEF WorkerCompletes, BusyAt, IInv, Places, WorkersHoldTasks
    <2> QED
      BY <2>1 DEF WorkerCompletes, BusyAt, Broadcast, IInv, TypeOK
  <1>2. opener \in [Groups -> OpenerStates]
    BY DEF IInv, TypeOK
  <1>3. /\ Unfinished(g)' = Unfinished(g) \ {t} /\ t \in Unfinished(g)
        /\ \A h \in Groups \ {g} : Unfinished(h)' = Unfinished(h)
    BY <1>1 DEF Unfinished
  <1>4. /\ IsFiniteSet(Unfinished(g)') /\ active[g] \in Nat \ {0}
        /\ Cardinality(Unfinished(g)') = active[g] - 1
    BY <1>1, <1>3, OneLess DEF IInv, Counters, Finite, ActiveCountsUnfinished
  <1>5. active' = [active EXCEPT ![g] = @ - 1] /\ active \in [Groups -> Nat]
    BY <1>1, <1>4 DEF IInv, TypeOK
  <1>6. (\A h \in Groups : IsFiniteSet(Unfinished(h)))' /\ ActiveCountsUnfinished'
    BY <1>3, <1>4, <1>5 DEF IInv, Counters, Finite, ActiveCountsUnfinished
  <1>7. /\ \A h \in Groups : opener'[h] = opener[h] \/ (opener[h] = "wait_sleep" /\ opener'[h] = "wait_woken")
        /\ opener' \in [Groups -> OpenerStates]
    BY <1>1, <1>2 DEF OpenerStates
  <1>8. TypeOK'
    <2>1. active' \in [Groups -> Nat]
      BY <1>4, <1>5
    <2> QED
      BY <1>1, <1>7, <2>1 DEF IInv, TypeOK, Stages, WorkerStates, execVars
  <1>9. QueueHoldsQueued' /\ OutcomesFollowStages'
    BY <1>1 DEF IInv, Places, QueueHoldsQueued, OutcomesFollowStages, Over, execVars
  <1>10. WorkersHoldTasks'
    <2>1. /\ \A v \in Workers \ {w} : worker'[v] = worker[v] /\ taken'[v] = taken[v]
          /\ worker'[w] # "busy"
          /\ \A u \in Tasks \ {t} : stage'[u] = stage[u]
      BY <1>1 DEF IInv, TypeOK
    <2>2. \A v \in Workers \ {w} : worker[v] = "busy" => taken[v] \in Tasks \ {t}
      BY <1>1 DEF IInv, Places, WorkersHoldTasks
    <2> QED
      BY <2>1, <2>2 DEF IInv, Places, WorkersHoldTasks
  <1>11. SpawnersHoldTasks'
    BY <1>1, <1>7 DEF IInv, Places, SpawnersHoldTasks
  <1>12. ListsHoldSpawned'
    BY <1>1 DEF IInv, Places, ListsHoldSpawned, Listed, Stages
  <1>13. GroupsFollowOpeners'
    <2>1. active[g] # 0
      BY <1>4
    <2>2. \A h \in Groups \ {g} : active'[h] = active[h]
      BY <1>5
    <2> QED
      BY <1>1, <1>7, <2>1, <2>2 DEF IInv, Places, GroupsFollowOpeners
  <1>14. Idle' = Idle /\ Woken' = Woken /\ Born' = Born /\ Starting' = Starting
    BY <1>1, <1>7 DEF Idle, Woken, Born, Starting
  <1>15. Counters'
    BY <1>1, <1>6, <1>14, WorkersCountedAsBefore DEF IInv, Counters, Finite
  <1> QED
    BY <1>8, <1>9, <1>10, <1>11, <1>12, <1>13, <1>15 DEF IInv, Places

\* The group lets go of a task: by then it is complete.
LEMMA ReleaseInv ==
    ASSUME IInv, NEW g \in Groups, NEW t \in Tasks, ReleaseTask(g, t)
    PROVE  IInv'
  <1> USE DEF ReleaseTask, OpenerAt, execVars, workVars, openVars
  <1>1. /\ opener[g] = "release" /\ t \in allTasks[g]
        /\ stage' = [stage EXCEPT ![t] = "released"] /\ stage \in [Tasks -> Stages]
        /\ allTasks' = [allTasks EXCEPT ![g] = @ \ {t}]
        /\ UNCHANGED <<execVars, workVars, outcome, group, active, cancelled, closing,
                       openVars, aborted>>
    BY DEF IInv, TypeOK
  <1>2. stage[t] = "complete" /\ GroupOf[t] = g
    <2>1. GroupOf[t] = g /\ stage[t] \in Listed
      BY <1>1 DEF IInv, Places, ListsHoldSpawned
    <2>2. Cardinality(Unfinished(g)) = 0 /\ IsFiniteSet(Unfinished(g))
      BY <1>1 DEF IInv, Places, GroupsFollowOpeners, Counters, Finite, ActiveCountsUnfinished
    <2>3. Unfinished(g) = {}
      BY <2>2, FS_EmptySet
    <2> QED
      BY <2>1, <2>3 DEF Unfinished, Listed, Stages
  <1>3. TypeOK'
    BY <1>1 DEF IInv, TypeOK, Stages
  <1>4. QueueHoldsQueued' /\ WorkersHoldTasks' /\ OutcomesFollowStages'
    BY <1>1, <1>2 DEF IInv, Places, QueueHoldsQueued, WorkersHoldTasks, OutcomesFollowStages,
       InHand, Over
  <1>5. SpawnersHoldTasks' /\ ListsHoldSpawned'
    BY <1>1, <1>2 DEF IInv, TypeOK, Places, SpawnersHoldTasks, ListsHoldSpawned, Listed, Stages
  <1>6. GroupsFollowOpeners'
    BY <1>1 DEF IInv, TypeOK, Places, GroupsFollowOpeners
  <1>7. /\ \A h \in Groups : Unfinished(h)' = Unfinished(h)
        /\ Idle' = Idle /\ Woken' = Woken /\ Born' = Born /\ Starting' = Starting
    BY <1>1, <1>2 DEF Unfinished, Idle, Woken, Born, Starting
  <1>8. Counters'
    BY <1>1, <1>7, TasksCountedAsBefore, WorkersCountedAsBefore DEF IInv, Counters, Finite
  <1> QED
    BY <1>3, <1>4, <1>5, <1>6, <1>8 DEF IInv, Places

-----------------------------------------------------------------------------
\* Every step preserves the inductive invariant.
LEMMA NextInv == IInv /\ [Next]_vars => IInv'
  <1> SUFFICES ASSUME IInv, [Next]_vars PROVE IInv'
    OBVIOUS
  <1>1. CASE UNCHANGED vars
    BY <1>1 DEF vars, execVars, workVars, taskVars, groupVars, openVars, IInv, TypeOK, Places,
       QueueHoldsQueued, WorkersHoldTasks, SpawnersHoldTasks, ListsHoldSpawned,
       GroupsFollowOpeners, OutcomesFollowStages, Counters, Finite, ActiveCountsUnfinished,
       PoolCounted, NoLostWakeup, Unfinished, Idle, Woken, Born, Starting
  <1>2. ASSUME NEW g \in Groups, OpenerStep(g) PROVE IInv'
    BY <1>2, OpenerInv, EnqueueInv, StartInv, ReleaseInv DEF OpenerStep
  <1>3. ASSUME NEW g \in Groups, OpenerCalls(g) \/ SpuriousGroupWake(g) PROVE IInv'
    BY <1>3, OpenerInv, SpawnInv DEF OpenerCalls
  <1>4. ASSUME NEW w \in Workers, WorkerStep(w) \/ SpuriousWake(w) PROVE IInv'
    BY <1>4, TakeInv, SleepInv, HandInv, CompleteInv DEF WorkerStep
  <1> QED
    BY <1>1, <1>2, <1>3, <1>4 DEF Next

LEMMA Invariance == Spec => []IInv
  BY InitInv, NextInv, PTL DEF Spec

\* The executor, the groups and their callers keep their types; idleWorkers
\* never falls below 0 and workerCount never passes the limit.
THEOREM TypeCorrect == Spec => []TypeOK
  <1>1. IInv => TypeOK
    BY DEF IInv
  <1> QED
    BY <1>1, Invariance, PTL

\* `active` counts the unfinished tasks of its group, for any interleaving of
\* spawns, workers and cancellations (taskGroupSpawn, executorWorker).
THEOREM ActiveIsExact == Spec => []ActiveCountsUnfinished
  <1>1. IInv => ActiveCountsUnfinished
    BY DEF IInv, Counters
  <1> QED
    BY <1>1, Invariance, PTL

\* The counters of the pool are right whatever starts fail (executorEnqueue).
THEOREM PoolIsCounted == Spec => []PoolCounted
  <1>1. IInv => PoolCounted
    BY DEF IInv, Counters
  <1> QED
    BY <1>1, Invariance, PTL

\* One signal for every task that is queued is enough (executorEnqueue,
\* executorWorker): no worker sleeps through a task.
THEOREM WakeupsReach == Spec => []NoLostWakeup
  <1>1. IInv => NoLostWakeup
    BY DEF IInv, Counters
  <1> QED
    BY <1>1, Invariance, PTL

\* A task is queued once and worked on by one worker.
THEOREM OneWorker == Spec => []OneWorkerPerTask
  <1>1. IInv => OneWorkerPerTask
    BY DEF IInv, Places, QueueHoldsQueued, WorkersHoldTasks, OneWorkerPerTask
  <1> QED
    BY <1>1, Invariance, PTL

\* A group is freed after the last of its tasks (taskGroupDestroy), however
\* groups are nested.
THEOREM ExitIsLast == Spec => []ExitAfterChildren
  <1>1. IInv => ExitAfterChildren
    <2> SUFFICES ASSUME IInv, NEW g \in Groups, group[g] = "freed", NEW t \in Tasks,
                        GroupOf[t] = g, stage[t] # "none"
                 PROVE  outcome[t] # "none" /\ stage[t] = "released"
      BY DEF ExitAfterChildren
    <2>1. allTasks[g] = {}
      BY DEF IInv, Places, GroupsFollowOpeners
    <2>2. stage[t] \in Stages \ Listed
      BY <2>1 DEF IInv, TypeOK, Places, ListsHoldSpawned
    <2> QED
      BY <2>2 DEF IInv, Places, OutcomesFollowStages, Over, Listed
  <1> QED
    BY <1>1, Invariance, PTL

\* Nobody touches a task group after taskGroupDestroy has freed it.
THEOREM GroupOutlivesUse == Spec => []NoUseAfterFree
  <1>1. IInv => NoUseAfterFree
    <2> SUFFICES ASSUME IInv PROVE NoUseAfterFree
      OBVIOUS
    <2>1. \A t \in Tasks : stage[t] \in InHand \cup {"queued"} =>
              t \in allTasks[GroupOf[t]] /\ group[GroupOf[t]] = "open"
      BY ExecutorConstants DEF IInv, Places, ListsHoldSpawned, GroupsFollowOpeners,
         Listed, InHand, Stages
    <2>2. \A i \in 1 .. Len(queue) : queue[i] \in Tasks /\ stage[queue[i]] = "queued"
      BY DEF IInv, TypeOK, Places, QueueHoldsQueued
    <2> QED
      BY <2>1, <2>2 DEF IInv, Places, WorkersHoldTasks, NoUseAfterFree
  <1> QED
    BY <1>1, Invariance, PTL

\* asyncCancelQueued and asyncWait settle a task once and for all: one that was
\* cancelled in the queue never runs.
THEOREM OutcomesStand == Spec => OutcomeIsFinal
  <1> DEFINE Final == \A t \in Tasks : outcome[t] # "none" => outcome'[t] = outcome[t]
  <1>1. ASSUME IInv, [Next]_vars PROVE [Final]_vars
    <2> USE <1>1
    <2>1. CASE outcome' = outcome
      BY <2>1
    <2>2. ASSUME NEW w \in Workers, WorkerCancels(w) \/ WorkerEndsBody(w) PROVE Final
      <3>1. PICK t \in Tasks, o \in {"done", "cancelled"} :
               stage[t] \notin Over /\ outcome' = [outcome EXCEPT ![t] = o]
        BY <2>2 DEF WorkerCancels, WorkerEndsBody, BusyAt, Over, IInv, Places, WorkersHoldTasks
      <3>2. outcome[t] = "none" /\ outcome \in [Tasks -> {"none", "done", "cancelled"}]
        BY <3>1 DEF IInv, TypeOK, Places, OutcomesFollowStages
      <3> QED
        BY <3>1, <3>2
    <2>3. outcome' = outcome \/ \E w \in Workers : WorkerCancels(w) \/ WorkerEndsBody(w)
      <3> USE DEF vars, execVars, workVars, taskVars, groupVars, openVars
      <3>1. ASSUME NEW g \in Groups, OpenerStep(g) \/ OpenerCalls(g) \/ SpuriousGroupWake(g)
            PROVE  outcome' = outcome
        <4>1. CASE OpenerStep(g)
          BY <4>1 DEF OpenerStep, ExecutorEnqueue, ExecutorStartWorker, ExecutorStartFails,
             TaskGroupIsComplete, TaskGroupWait, ReleaseTask, TaskGroupDestroy
        <4>2. CASE OpenerCalls(g)
          BY <4>2 DEF OpenerCalls, TaskGroupCreate, TaskGroupCancel, SpawnAttach, SpawnRefused,
             TaskGroupIsComplete, TaskGroupWait
        <4>3. CASE SpuriousGroupWake(g)
          BY <4>3 DEF SpuriousGroupWake
        <4> QED
          BY <3>1, <4>1, <4>2, <4>3
      <3>2. ASSUME NEW w \in Workers, WorkerStep(w) \/ SpuriousWake(w)
            PROVE  outcome' = outcome \/ WorkerCancels(w) \/ WorkerEndsBody(w)
        BY <3>2 DEF WorkerStep, SpuriousWake, WorkerTakes, WorkerSleeps, WorkerReadsCancelled,
           WorkerCompletes
      <3> QED
        BY <3>1, <3>2 DEF Next
    <2> QED
      BY <2>1, <2>2, <2>3
  <1> QED
    BY <1>1, Invariance, PTL DEF Spec, OutcomeIsFinal

=============================================================================
