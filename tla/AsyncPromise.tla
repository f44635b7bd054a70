---------------------------- MODULE AsyncPromise ----------------------------
(***************************************************************************)
(* One promise of the asynchronous runtime (runtime/runtime.tn, asyncWait, *)
(* asyncAttachGroup, asyncRelease, asyncRetain, asyncCancelQueued).        *)
(*                                                                         *)
(* Every function copies the AsyncPromise structure first and locks its    *)
(* mutex afterwards; the critical section then tests, updates and stores   *)
(* the copy.  The copy may be older than the section, and parts of it may  *)
(* be of different ages: the two parts the functions depend on, `state`    *)
(* and the reference fields, are copied by separate steps in either order. *)
(*                                                                         *)
(* Each thread performs a script of calls.  The order between the scripts  *)
(* is what TaskGroup and executorWorker enforce: a worker is handed the    *)
(* promise after it was attached, the group gives up its reference after   *)
(* the worker has completed the task.                                      *)
(***************************************************************************)
EXTENDS Integers, Sequences

CONSTANTS Owner, Worker,  \* the two threads
          Scripts,        \* pairs of call sequences <<owner's, worker's>>
          Serialities     \* of {TRUE}: no two calls overlap in time

Threads == {Owner, Worker}
Calls == {"attach", "retain", "destroy", "wait", "group_release", "cancel"}

ASSUME PromiseConstants ==
    /\ Owner # Worker
    /\ Serialities \subseteq BOOLEAN
    /\ Scripts \subseteq Seq(Calls) \X Seq(Calls)

VARIABLES state,     \* 0 cold, 1 running, 2 done, 3 cancelled
          refs,      \* references, groupReference, resourcesReleased
          freed,     \* the promise and its mutex have been freed
          polls,     \* times the body was started
          finished,  \* times it came to its end
          drops,     \* times its captured arguments were dropped unused
          serial,    \* do the calls of this run follow each other (never changes)
          script,    \* the calls each thread still has to make
          pc,        \* where the thread is inside the first of them
          copied,    \* the parts of the structure it has copied
          copy,      \* its copy
          answer     \* what its last asyncWait returned

pvars == <<state, refs, freed, polls, finished, drops, serial, script, pc, copied, copy, answer>>
memory == <<state, refs, freed>>
body == <<polls, finished, drops>>

Refs == [count : Int, group : BOOLEAN, released : BOOLEAN]
Copies == [state : 0 .. 3, refs : Refs]

PromiseType ==
    /\ state \in 0 .. 3
    /\ refs \in Refs
    /\ freed \in BOOLEAN
    /\ polls \in Nat /\ finished \in Nat /\ drops \in Nat
    /\ script \in [Threads -> Seq(Calls)]
    /\ pc \in [Threads -> {"idle", "copy", "poll", "sleep", "woken"}]
    /\ copied \in [Threads -> SUBSET {"state", "refs"}]
    /\ copy \in [Threads -> Copies]
    /\ answer \in [Threads -> {"none", "ok", "cancelled"}]

\* asyncCreate.
PromiseInit ==
    /\ state = 0
    /\ refs = [count |-> 1, group |-> FALSE, released |-> FALSE]
    /\ freed = FALSE
    /\ polls = 0 /\ finished = 0 /\ drops = 0
    /\ serial \in Serialities
    /\ \E s \in Scripts : script = [t \in Threads |-> IF t = Owner THEN s[1] ELSE s[2]]
    /\ pc = [t \in Threads |-> "idle"]
    /\ copied = [t \in Threads |-> {}]
    /\ copy = [t \in Threads |-> [state |-> 0, refs |-> refs]]
    /\ answer = [t \in Threads |-> "none"]

-----------------------------------------------------------------------------
Call(t) == Head(script[t])

\* What TaskGroup and executorWorker order: the worker comes after the
\* attachment, the release of the group's reference after the worker.
Enabled(t) ==
    /\ script[t] # <<>>
    /\ t = Worker => \A i \in 1 .. Len(script[Owner]) : script[Owner][i] # "attach"
    /\ Call(t) = "group_release" => script[Worker] = <<>>
    /\ serial => \A u \in Threads \ {t} : pc[u] = "idle"

Begin(t) ==
    /\ pc[t] = "idle"
    /\ Enabled(t)
    /\ pc' = [pc EXCEPT ![t] = "copy"]
    /\ copied' = [copied EXCEPT ![t] = {}]
    /\ UNCHANGED <<memory, body, script, copy, answer>>

\* asyncRead before the lock: one part of the structure.
CopyPart(t) ==
    /\ pc[t] = "copy"
    /\ \/ /\ "state" \notin copied[t]
          /\ copy' = [copy EXCEPT ![t].state = state]
          /\ copied' = [copied EXCEPT ![t] = @ \cup {"state"}]
       \/ /\ "refs" \notin copied[t]
          /\ copy' = [copy EXCEPT ![t].refs = refs]
          /\ copied' = [copied EXCEPT ![t] = @ \cup {"refs"}]
    /\ UNCHANGED <<memory, body, script, pc, answer>>

\* The critical section of call `name` may run on the copy.
Section(t, name) ==
    /\ pc[t] = "copy"
    /\ Call(t) = name
    /\ copied[t] = {"state", "refs"}

Return(t) ==
    /\ pc' = [pc EXCEPT ![t] = "idle"]
    /\ script' = [script EXCEPT ![t] = Tail(@)]

Store(s, r) == state' = s /\ refs' = r

\* pthread_cond_broadcast.
Wake(p) == [u \in Threads |-> IF p[u] = "sleep" THEN "woken" ELSE p[u]]

-----------------------------------------------------------------------------
(* asyncAttachGroup; the group's reference is the flag refs.group. *)
AsyncAttachGroup(t) ==
    LET c == copy[t] IN
    /\ Section(t, "attach")
    /\ Return(t)
    /\ IF c.state = 0 /\ ~c.refs.group
       THEN Store(c.state, [c.refs EXCEPT !.count = @ + 1, !.group = TRUE])
       ELSE UNCHANGED <<state, refs>>
    /\ UNCHANGED <<freed, body, copied, copy, answer>>

(* asyncRetain, called by taskFromPromise. *)
AsyncRetain(t) ==
    LET c == copy[t] IN
    /\ Section(t, "retain")
    /\ Return(t)
    /\ IF c.refs.released \/ c.refs.count = 0
       THEN UNCHANGED <<state, refs>>
       ELSE Store(c.state, [c.refs EXCEPT !.count = @ + 1])
    /\ UNCHANGED <<freed, body, copied, copy, answer>>

(* asyncCancelQueued, called by a worker on a cancelled group's task. *)
AsyncCancelQueued(t) ==
    LET c == copy[t] IN
    /\ Section(t, "cancel")
    /\ script' = [script EXCEPT ![t] = Tail(@)]
    /\ IF c.state = 0
       THEN Store(3, c.refs) /\ pc' = Wake([pc EXCEPT ![t] = "idle"])
       ELSE UNCHANGED <<state, refs>> /\ pc' = [pc EXCEPT ![t] = "idle"]
    /\ UNCHANGED <<freed, body, copied, copy, answer>>

-----------------------------------------------------------------------------
(* asyncWait. *)

\* Mutant: a running body counts as an answer.
WaitReturnsEarly(t) ==
    /\ Section(t, "wait")
    /\ copy[t].state \in {1, 2, 3}
    /\ answer' = [answer EXCEPT ![t] = IF copy[t].state \in {1, 2} THEN "ok" ELSE "cancelled"]
    /\ Return(t)
    /\ UNCHANGED <<memory, body, copied, copy>>

\* State 2 or 3: the answer is known.
WaitReturns(t) ==
    /\ Section(t, "wait")
    /\ copy[t].state \in {2, 3}
    /\ answer' = [answer EXCEPT ![t] = IF copy[t].state = 2 THEN "ok" ELSE "cancelled"]
    /\ Return(t)
    /\ UNCHANGED <<memory, body, copied, copy>>

\* State 1: another thread runs the body; sleep on the condition.
WaitSleeps(t) ==
    /\ Section(t, "wait")
    /\ copy[t].state = 1
    /\ pc' = [pc EXCEPT ![t] = "sleep"]
    /\ UNCHANGED <<memory, body, script, copied, copy, answer>>

\* State 0: the body is started by this thread, with the mutex released.
WaitStarts(t) ==
    /\ Section(t, "wait")
    /\ copy[t].state = 0
    /\ Store(1, copy[t].refs)
    /\ polls' = polls + 1
    /\ pc' = [pc EXCEPT ![t] = "poll"]
    /\ UNCHANGED <<freed, finished, drops, script, copied, copy, answer>>

\* Mutant: the end of the body is published without a broadcast.
WaitEndsSilently(t) ==
    /\ pc[t] = "poll"
    /\ finished' = finished + 1
    /\ state' = IF state = 1 THEN 2 ELSE state
    /\ answer' = [answer EXCEPT ![t] = IF state' = 2 THEN "ok" ELSE "cancelled"]
    /\ Return(t)
    /\ UNCHANGED <<refs, freed, polls, drops, copied, copy>>

\* The body has returned: lock, read again, publish.
WaitEnds(t) ==
    /\ pc[t] = "poll"
    /\ finished' = finished + 1
    /\ state' = IF state = 1 THEN 2 ELSE state
    /\ answer' = [answer EXCEPT ![t] = IF state' = 2 THEN "ok" ELSE "cancelled"]
    /\ pc' = Wake([pc EXCEPT ![t] = "idle"])
    /\ script' = [script EXCEPT ![t] = Tail(@)]
    /\ UNCHANGED <<refs, freed, polls, drops, copied, copy>>

\* Out of pthread_cond_wait: the structure is read under the mutex.
WaitWakes(t) ==
    /\ pc[t] = "woken" /\ Call(t) = "wait"
    /\ IF state = 1
       THEN pc' = [pc EXCEPT ![t] = "sleep"] /\ UNCHANGED <<script, answer>>
       ELSE /\ answer' = [answer EXCEPT ![t] = IF state = 2 THEN "ok" ELSE "cancelled"]
            /\ Return(t)
    /\ UNCHANGED <<memory, body, copied, copy>>

SpuriousPromiseWake(t) ==
    /\ pc[t] = "sleep"
    /\ pc' = [pc EXCEPT ![t] = "woken"]
    /\ UNCHANGED <<memory, body, script, copied, copy, answer>>

-----------------------------------------------------------------------------
(* asyncRelease: asyncDestroy ("destroy") and asyncGroupRelease. *)

\* asyncReleaseContext: the compiler's drop function destroys the captured
\* arguments; it leaves the block to its caller, which does not free it.
ReleaseContext == drops' = drops + 1

\* Mutant: a started body is treated as a cold one.
FreeAllDropping(s) ==
    /\ state' = 3
    /\ freed' = TRUE
    /\ ReleaseContext
    /\ refs' = [count |-> 0, group |-> FALSE, released |-> TRUE]
    /\ UNCHANGED <<polls, finished>>

\* Mutex, condition, result and the promise itself are freed.  A body that
\* was started owns its arguments.
FreeAll(s) ==
    /\ state' = 3
    /\ freed' = TRUE
    /\ IF s = 0 THEN ReleaseContext ELSE drops' = drops
    /\ refs' = [count |-> 0, group |-> FALSE, released |-> TRUE]
    /\ UNCHANGED <<polls, finished>>

\* Mutant: destroy may take the group's reference.
ReleasedUnprotected(t) ==
    LET r == copy[t].refs IN
    IF Call(t) = "group_release"
    THEN IF r.group THEN [r EXCEPT !.group = FALSE, !.count = @ - 1] ELSE r
    ELSE [r EXCEPT !.count = @ - 1]

\* The copy with this call's reference taken out, unchanged if it has none.
Released(t) ==
    LET r == copy[t].refs IN
    IF Call(t) = "group_release"
    THEN IF r.group THEN [r EXCEPT !.group = FALSE, !.count = @ - 1] ELSE r
    ELSE IF r.count <= (IF r.group THEN 1 ELSE 0) THEN r ELSE [r EXCEPT !.count = @ - 1]

\* Nothing to release, or a reference remains.
ReleaseKeeps(t) ==
    /\ Section(t, "destroy") \/ Section(t, "group_release")
    /\ Released(t) = copy[t].refs \/ Released(t).count # 0
    /\ IF Released(t) = copy[t].refs
       THEN UNCHANGED <<state, refs>>
       ELSE Store(copy[t].state, Released(t))
    /\ Return(t)
    /\ UNCHANGED <<freed, body, copied, copy, answer>>

\* The last reference: wait until the body is not running, then free.
ReleaseLast(t) ==
    /\ \/ /\ Section(t, "destroy") \/ Section(t, "group_release")
          /\ Released(t) # copy[t].refs /\ Released(t).count = 0
       \/ pc[t] = "woken" /\ Call(t) \in {"destroy", "group_release"}
    /\ LET s == IF pc[t] = "woken" THEN state ELSE copy[t].state
           r == IF pc[t] = "woken" THEN refs ELSE copy[t].refs IN
       IF s = 1
       THEN /\ pc' = [pc EXCEPT ![t] = "sleep"]
            /\ UNCHANGED <<memory, body, script>>
       ELSE /\ Return(t)
            /\ IF r.released THEN UNCHANGED <<memory, body>> ELSE FreeAll(s)
    /\ UNCHANGED <<copied, copy, answer>>

-----------------------------------------------------------------------------
CallStep(t) ==
    \/ CopyPart(t)
    \/ AsyncAttachGroup(t) \/ AsyncRetain(t) \/ AsyncCancelQueued(t)
    \/ WaitReturns(t) \/ WaitSleeps(t) \/ WaitStarts(t) \/ WaitEnds(t) \/ WaitWakes(t)
    \/ ReleaseKeeps(t) \/ ReleaseLast(t)

PromiseNext ==
    /\ \E t \in Threads : Begin(t) \/ CallStep(t) \/ SpuriousPromiseWake(t)
    /\ UNCHANGED serial

PromiseSpec == PromiseInit /\ [][PromiseNext]_pvars

\* Threads keep running and bodies end.
PromiseFairness == \A t \in Threads : WF_pvars((Begin(t) \/ CallStep(t)) /\ UNCHANGED serial)

FairPromise == PromiseSpec /\ PromiseFairness

-----------------------------------------------------------------------------
Done == \A t \in Threads : script[t] = <<>>

\* await yields a value only if the body has come to its end and so has
\* written the result the awaiter is going to read.
ValueOnlyAfterBody ==
    \A t \in Threads : answer[t] = "ok" => finished > 0

\* The context is consumed once: either the body starts, once, and takes the
\* captured values over, or they are destroyed without it.
ContextConsumedOnce == polls + drops <= 1

\* ... for certain if no two calls overlap.
ContextConsumedOnceSerially == serial => ContextConsumedOnce

\* Nothing is read or written after the last reference has freed it, and when every call has
\* returned, one after the other, every reference has been given up and it is freed (asyncRelease).
FreedAtLast ==
    /\ freed => \A t \in Threads : pc[t] = "idle" /\ script[t] = <<>>
    /\ serial /\ Done => freed

\* A thread that sleeps on a promise whose body is running gets on, whether it awaits the
\* value or gives up the last reference: the end of the body wakes it (asyncWait,
\* asyncRelease).
SleeperWakes ==
    (\E t, u \in Threads : pc[t] = "sleep" /\ pc[u] = "poll") ~> (\A t \in Threads : pc[t] # "sleep")

\* An await returns once the promise is done or cancelled (asyncWait).
AwaitReturns ==
    \A t \in Threads :
        (state \in {2, 3} /\ pc[t] # "idle" /\ Call(t) = "wait") ~> (pc[t] = "idle")
=============================================================================
