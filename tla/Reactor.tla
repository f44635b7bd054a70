------------------------------- MODULE Reactor -------------------------------
(* The process-wide reactor (runtime/runtime.tn, reactorShared to            *)
(* reactorWaitFor; runtime/platform/linux-x86_64.tn) and the asynchronous    *)
(* socket operations that wait on it (std/net.tn).                           *)
(*                                                                           *)
(* An operation tries the socket; if that would block, it watches the        *)
(* descriptor and polls until an event for it turns up.  Each poll asks the  *)
(* operating system for one event, whoever it is for, and holds the          *)
(* reactor's mutex meanwhile; an event for somebody else goes to the front   *)
(* of a pending list, which every poll looks at first.                       *)
EXTENDS Integers, Sequences, SequencesExt, FiniteSets

CONSTANTS
    Waiters,        \* tasks that read or write a socket
    Poller,         \* a thread that calls poll: it takes events of any socket
    Descriptors,
    DescriptorOf,   \* the socket of a waiter ...
    EventOf,        \* ... and what it waits for there: "in" or "out"
    RoundsOf,       \* operations a waiter does
    Closing,        \* the sockets whose other end may close
    MaxInterrupts,  \* polls that the operating system interrupts
    MaxPolls,       \* calls of poll
    MaxPending      \* entries of one descriptor in the pending list: a further one
                    \* would be told apart from those by nobody and is not added

ASSUME ReactorConstants ==
    /\ Poller \notin Waiters
    /\ DescriptorOf \in [Waiters -> Descriptors]
    /\ EventOf \in [Waiters -> {"in", "out"}]
    /\ RoundsOf \in [Waiters -> Nat]
    /\ Closing \subseteq Descriptors
    /\ {MaxInterrupts, MaxPolls, MaxPending} \subseteq Nat

VARIABLES
    shared,     \* sharedReactorState: 0, 1 being made, 2 made
    handle,     \* sharedReactorHandle: is there one
    created,    \* reactors made
    mutex,      \* who holds the reactor's mutex
    pending,    \* the pending list, front first
    watched,    \* descriptor -> events the poller reports of it, {} if unregistered
    available,  \* descriptor -> events its socket is ready for
    doing,      \* where each thread is
    rounds,     \* operations a waiter still has to do
    interrupts, \* polls that were interrupted
    pollsLeft   \* calls of poll still to come

once == <<shared, handle, created>>
kernel == <<watched, available>>
budget == <<rounds, interrupts, pollsLeft>>
rvars == <<once, mutex, pending, kernel, doing, budget>>

Parties == Waiters \cup {Poller}
Nobody == "nobody"
Events == {"in", "out", "hup"}

\* Watched or not, errors and hang-ups are reported of what is registered.
Always == {"hup"}

ReactorInit ==
    /\ shared = 0
    /\ handle = FALSE
    /\ created = 0
    /\ mutex = Nobody
    /\ pending = <<>>
    /\ watched = [d \in Descriptors |-> {}]
    /\ available = [d \in Descriptors |-> {}]
    /\ doing = [t \in Parties |-> IF t = Poller THEN "start" ELSE "operate"]
    /\ rounds = RoundsOf
    /\ interrupts = 0
    /\ pollsLeft = MaxPolls

Goto(t, from, to) == doing[t] = from /\ doing' = [doing EXCEPT ![t] = to]

----------------------------------------------------------------------------
(* reactorShared: one thread makes the reactor, the others wait for it.      *)

Load(t) ==
    /\ Goto(t, "start", IF shared = 2 THEN "handle" ELSE "claim")
    /\ UNCHANGED <<once, mutex, pending, kernel, budget>>

(* Mutant: state 1 is stored without comparing. *)
ClaimAlways(t) ==
    /\ Goto(t, "claim", "create")
    /\ shared' = 1
    /\ UNCHANGED <<handle, created, mutex, pending, kernel, budget>>

Claim(t) ==
    /\ Goto(t, "claim", IF shared = 0 THEN "create" ELSE "spin")
    /\ shared' = IF shared = 0 THEN 1 ELSE shared
    /\ UNCHANGED <<handle, created, mutex, pending, kernel, budget>>

Create(t) ==
    /\ Goto(t, "create", "publish")
    /\ created' = created + 1
    /\ handle' = TRUE
    /\ UNCHANGED <<shared, mutex, pending, kernel, budget>>

Publish(t) ==
    /\ Goto(t, "publish", "handle")
    /\ shared' = IF shared = 1 THEN 2 ELSE shared
    /\ UNCHANGED <<handle, created, mutex, pending, kernel, budget>>

Spin(t) ==
    /\ shared # 1
    /\ Goto(t, "spin", "handle")
    /\ UNCHANGED <<once, mutex, pending, kernel, budget>>

\* A thread without a handle aborts the process (sharedReactor).
HasHandle(t) ==
    /\ handle
    /\ Goto(t, "handle", IF t = Poller THEN "poll" ELSE "watch")
    /\ UNCHANGED <<once, mutex, pending, kernel, budget>>

SharedReactor(t) == Load(t) \/ Claim(t) \/ Create(t) \/ Publish(t) \/ Spin(t) \/ HasHandle(t)

----------------------------------------------------------------------------
(* Waiting (waitFor, over reactorWatch, reactorWaitFor and reactorUnwatch).  *)

Of(w) == DescriptorOf[w]
Wanted(w) == {EventOf[w]} \cup Always

(* readInto, writeBytes, accept: the operation itself.  One that would block *)
(* waits first; one that went through uses up what was there.                *)
Operate(w) ==
    /\ rounds[w] > 0
    /\ IF available[Of(w)] \cap Wanted(w) = {}
       THEN Goto(w, "operate", "start") /\ UNCHANGED <<available, rounds>>
       ELSE /\ doing[w] = "operate" /\ UNCHANGED doing
            /\ available' = [available EXCEPT ![Of(w)] = @ \ {EventOf[w]}]
            /\ rounds' = [rounds EXCEPT ![w] = @ - 1]
    /\ UNCHANGED <<once, mutex, pending, watched, interrupts, pollsLeft>>

(* epoll_ctl: add the descriptor, or replace what it was watched for.        *)
Watch(w) ==
    /\ mutex = Nobody
    /\ Goto(w, "watch", "poll")
    /\ watched' = [watched EXCEPT ![Of(w)] = Wanted(w)]
    /\ UNCHANGED <<once, mutex, pending, available, budget>>

For(w) == {i \in DOMAIN pending : /\ pending[i].descriptor = Of(w)
                                  /\ pending[i].events \cap Wanted(w) # {}}

\* reactorPendingTake: the first that matches
TakePending(w) ==
    /\ mutex = Nobody
    /\ Goto(w, "poll", "unwatch")
    /\ For(w) # {}
    /\ \E i \in For(w) : /\ \A j \in For(w) : i <= j
                         /\ pending' = RemoveAt(pending, i)
    /\ UNCHANGED <<once, mutex, kernel, budget>>

\* No event is pending: into epoll_wait, with the mutex.
StartPoll(t) ==
    /\ mutex = Nobody
    /\ Goto(t, "poll", "polling")
    /\ IF t = Poller THEN pending = <<>> ELSE For(t) = {}
    /\ mutex' = t
    /\ UNCHANGED <<once, pending, kernel, budget>>

Reported(d) == available[d] \cap watched[d]

Queued(d) == Cardinality({i \in DOMAIN pending : pending[i].descriptor = d})

(* Mutant: an event for somebody else is dropped. *)
PushNot(d) == pending' = pending

\* reactorPendingPush
Push(d) ==
    IF Queued(d) < MaxPending
    THEN pending' = <<[descriptor |-> d, events |-> Reported(d)]>> \o pending
    ELSE pending' = pending

\* One event of one descriptor, the waiter's own ...
PollAnswers(w, d) ==
    /\ Reported(d) \cap Wanted(w) # {}
    /\ Of(w) = d
    /\ Goto(w, "polling", "unwatch")
    /\ mutex' = Nobody
    /\ UNCHANGED <<once, pending, kernel, budget>>

\* ... or another's.
PollQueues(w, d) ==
    /\ Reported(d) # {}
    /\ Of(w) # d \/ Reported(d) \cap Wanted(w) = {}
    /\ Goto(w, "polling", "yield")
    /\ Push(d)
    /\ mutex' = Nobody
    /\ UNCHANGED <<once, kernel, budget>>

\* Nothing within 100 milliseconds.
PollTimesOut(w) ==
    /\ \A d \in Descriptors : Reported(d) = {}
    /\ Goto(w, "polling", "yield")
    /\ mutex' = Nobody
    /\ UNCHANGED <<once, pending, kernel, budget>>

(* An error (EINTR) is thrown out of waitFor: the descriptor stays watched,  *)
(* events stay pending, and the program may try the operation again.        *)
PollFails(w) ==
    /\ interrupts < MaxInterrupts
    /\ Goto(w, "polling", "operate")
    /\ interrupts' = interrupts + 1
    /\ mutex' = Nobody
    /\ UNCHANGED <<once, pending, kernel, rounds, pollsLeft>>

\* yieldToExecutor
Yield(w) ==
    /\ Goto(w, "yield", "poll")
    /\ UNCHANGED <<once, mutex, pending, kernel, budget>>

(* Mutant: what is pending for the descriptor stays. *)
UnwatchKeepsPending(w) ==
    /\ mutex = Nobody
    /\ Goto(w, "unwatch", "operate")
    /\ watched' = [watched EXCEPT ![Of(w)] = {}]
    /\ UNCHANGED <<once, mutex, pending, available, budget>>

\* reactorPendingRemove, which leaves the other entries in their order, and epoll_ctl
Others(w) == {i \in DOMAIN pending : pending[i].descriptor # Of(w)}

Unwatch(w) ==
    /\ mutex = Nobody
    /\ Goto(w, "unwatch", "operate")
    /\ \E order \in [1 .. Cardinality(Others(w)) -> Others(w)] :
          /\ \A i, j \in DOMAIN order : i < j => order[i] < order[j]
          /\ pending' = [i \in DOMAIN order |-> pending[order[i]]]
    /\ watched' = [watched EXCEPT ![Of(w)] = {}]
    /\ UNCHANGED <<once, mutex, available, budget>>

----------------------------------------------------------------------------
(* Reactor.poll (reactorWait): the first event pending for anybody, or one   *)
(* of the operating system's.                                               *)

PollTakesAny ==
    /\ mutex = Nobody
    /\ pending # <<>>
    /\ Goto(Poller, "poll", "polled")
    /\ pending' = Tail(pending)
    /\ UNCHANGED <<once, mutex, kernel, budget>>

PollReturns ==
    /\ Goto(Poller, "polling", "polled")
    /\ mutex' = Nobody
    /\ UNCHANGED <<once, pending, kernel, budget>>

PollAgain ==
    /\ pollsLeft > 0
    /\ Goto(Poller, "polled", "poll")
    /\ pollsLeft' = pollsLeft - 1
    /\ UNCHANGED <<once, mutex, pending, kernel, rounds, interrupts>>

----------------------------------------------------------------------------
(* The other end of a socket: data, room to write, or its close.  An event   *)
(* that no waiter of the socket waits for makes no difference.              *)
Happens(d, e) ==
    /\ e \in UNION {Wanted(w) : w \in {v \in Waiters : Of(v) = d}} \ available[d]
    /\ e \in Always => d \in Closing
    /\ available' = [available EXCEPT ![d] = @ \cup {e}]
    /\ UNCHANGED <<once, mutex, pending, watched, doing, budget>>

WaitFor(w) ==
    \/ Operate(w)
    \/ Watch(w)
    \/ TakePending(w)
    \/ \E d \in Descriptors : PollAnswers(w, d) \/ PollQueues(w, d)
    \/ PollTimesOut(w)
    \/ PollFails(w)
    \/ Yield(w)
    \/ Unwatch(w)

Poll == PollTakesAny \/ PollReturns \/ PollAgain

ReactorNext ==
    \/ \E t \in Parties : SharedReactor(t) \/ StartPoll(t)
    \/ \E w \in Waiters : WaitFor(w)
    \/ Poll
    \/ \E d \in Descriptors, e \in Events : Happens(d, e)

ReactorSpec == ReactorInit /\ [][ReactorNext]_rvars

\* What a thread does once it has the mutex, and what it does without one.
Locks(t) ==
    \/ StartPoll(t)
    \/ t \in Waiters /\ (Watch(t) \/ TakePending(t) \/ Unwatch(t))

Reports(w, d) == PollAnswers(w, d) \/ PollQueues(w, d)

Runs(t) ==
    \/ SharedReactor(t)
    \/ t = Poller /\ PollReturns
    \/ t \in Waiters /\ (Operate(t) \/ Yield(t) \/ PollTimesOut(t) \/ \E d \in Descriptors : Reports(t, d))

(* Threads keep running, a waiter that wants the mutex gets it at some time  *)
(* although others want it too (the poller may never get it), and the        *)
(* operating system keeps its ready descriptors in a queue: each is reported *)
(* in its turn.                                                              *)
ReactorFairness ==
    /\ \A t \in Parties : WF_rvars(Runs(t))
    /\ \A w \in Waiters : SF_rvars(Locks(w))
    /\ \A d \in Descriptors : SF_rvars(\E w \in Waiters : Reports(w, d))

FairReactorSpec == ReactorSpec /\ ReactorFairness

----------------------------------------------------------------------------
(* Properties.                                                              *)

Places == {"start", "claim", "create", "publish", "spin", "handle", "watch", "poll", "polling",
           "yield", "unwatch", "operate", "polled"}

Entries == [descriptor : Descriptors, events : SUBSET Events]

ReactorType ==
    /\ shared \in 0 .. 2
    /\ handle \in BOOLEAN
    /\ created \in Nat
    /\ mutex \in Parties \cup {Nobody}
    /\ pending \in Seq(Entries)
    /\ watched \in [Descriptors -> SUBSET Events]
    /\ available \in [Descriptors -> SUBSET Events]
    /\ doing \in [Parties -> Places]
    /\ rounds \in [Waiters -> Nat]
    /\ interrupts \in Nat

(* However many threads come first at once, one reactor is made, and nobody  *)
(* goes on without it (the state machine of reactorShared).                  *)
SharedOnce ==
    /\ created <= 1
    /\ \A t \in Parties : doing[t] \in {"handle", "watch", "poll", "polling", "unwatch"} => handle

(* Only one waiter at a time uses the socket of this one.                    *)
Alone(w) == \A v \in Waiters \ {w} : Of(v) # Of(w)

(* A waiter that has its socket to itself is not resumed in vain: an event   *)
(* that others queued for it is still true when it takes it, since unwatch   *)
(* clears what is left - unless a poll failed before and skipped unwatch.    *)
NotResumedInVain ==
    \A w \in Waiters :
        Alone(w) /\ interrupts = 0 /\ doing[w] = "unwatch" => available[Of(w)] \cap Wanted(w) # {}

(* What a waiter alone on its socket waits for reaches it, whichever thread  *)
(* polls it and whatever happened in between: it gets on with its operation. *)
EventReachesWaiter ==
    \A w \in Waiters :
        Alone(w) =>
            (available[Of(w)] \cap Wanted(w) # {} /\ doing[w] # "operate" ~> doing[w] = "operate")
=============================================================================
