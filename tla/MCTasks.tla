------------------------------- MODULE MCTasks -------------------------------
(* A program uses a promise, or task groups on the executor.                 *)
EXTENDS AsyncPromise, TaskExecutor, TLC

CONSTANTS t1, t2, t3, t4, g1, g2, g3,
          Used   \* the uses of a run

VARIABLE uses

\* A promise used by one thread: await (wait, then destroy) or drop.
PlainScripts ==
    {<< <<"wait", "destroy">>, <<>> >>, << <<"destroy">>, <<>> >>}

\* TaskGroup.spawn attaches and retains, then its parameter is dropped; the
\* task is awaited or dropped; closing the group gives up its reference.  The
\* worker waits, or cancels if the group was cancelled.
Spawned(use) == <<"attach", "retain", "destroy">> \o use \o <<"group_release">>
SpawnScripts ==
    {<<Spawned(use), <<work>> >> :
        use \in {<<"wait", "destroy">>, <<"destroy">>}, work \in {"wait", "cancel"}}

\* The task is awaited while a worker runs it (validation/async/returned-handle.tn).
AwaitScripts == {<<Spawned(<<"wait", "destroy">>), <<"wait">> >>}

AllScripts == PlainScripts \cup SpawnScripts

Either == BOOLEAN
Overlapping == {FALSE}

\* The bodies of t1 and t2 each open a group with one task.
ParentsGroupOf == (t1 :> g1) @@ (t2 :> g1) @@ (t3 :> g2) @@ (t4 :> g3)
ParentsOpenedBy == (g1 :> NoTask) @@ (g2 :> t1) @@ (g3 :> t2)

\* The body of t1 opens g2.
NestedGroupOf == (t1 :> g1) @@ (t2 :> g1) @@ (t3 :> g2)
NestedOpenedBy == (g1 :> NoTask) @@ (g2 :> t1)

\* A promise that is not used stays as one of the programs would find it.
ChooseTasks == /\ uses \in Used /\ PromiseInit /\ Init
               /\ uses # "promise" => ~serial /\ script[Owner] = <<"destroy">>

UsePromise == uses = "promise" /\ PromiseNext /\ UNCHANGED <<uses, vars>>
UseExecutor == uses = "executor" /\ Next /\ UNCHANGED <<uses, pvars>>

TasksProgram == ChooseTasks /\ [][UsePromise \/ UseExecutor]_<<uses, vars, pvars>>

\* The fairness of the two modules.
TasksFairness ==
    /\ \A t \in Threads : WF_pvars(uses = "promise" /\ (Begin(t) \/ CallStep(t)) /\ UNCHANGED serial)
    /\ \A w \in Workers : WF_vars(uses = "executor" /\ WorkerStep(w))
    /\ \A g \in Groups :
          /\ WF_vars(uses = "executor" /\ OpenerStep(g))
          /\ WF_vars(uses = "executor" /\ OpenerCloses(g))

FairTasks == TasksProgram /\ TasksFairness
=============================================================================
