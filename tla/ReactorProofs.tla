--------------------------- MODULE ReactorProofs ---------------------------
(* Proofs about Reactor, for any number of threads, sockets and operations:  *)
(* the shared reactor is made once, and a task that is alone on its socket    *)
(* is not resumed in vain while no poll has failed.                           *)
EXTENDS Reactor, FiniteSetTheorems, SequenceTheorems, TLAPS

-----------------------------------------------------------------------------
(* The pending list.                                                        *)

\* Each entry of q is one of p.
From(p, q) == \A i \in DOMAIN q : \E j \in DOMAIN p : q[i] = p[j]

\* A list without one of its entries.
LEMMA RemovedFrom ==
    ASSUME NEW S, NEW p \in Seq(S), NEW i \in DOMAIN p
    PROVE  RemoveAt(p, i) \in Seq(S) /\ From(p, RemoveAt(p, i))
  <1> DEFINE a == SubSeq(p, 1, i - 1)
             b == SubSeq(p, i + 1, Len(p))
             q == a \o b
  <1>1. Len(p) \in Nat /\ i \in 1 .. Len(p) /\ DOMAIN p = 1 .. Len(p)
    BY LenProperties
  <1>2. /\ a \in Seq(S) /\ Len(a) = i - 1
        /\ \A k \in 1 .. i - 1 : a[k] = p[k]
    BY <1>1
  <1>3. /\ b \in Seq(S) /\ Len(b) = Len(p) - i
        /\ \A k \in 1 .. Len(p) - i : b[k] = p[i + k]
    BY <1>1
  <1> HIDE DEF a, b
  <1>4. /\ q \in Seq(S) /\ Len(q) = Len(a) + Len(b)
        /\ \A k \in 1 .. Len(a) + Len(b) : q[k] = IF k <= Len(a) THEN a[k] ELSE b[k - Len(a)]
    BY <1>2, <1>3, ConcatProperties
  <1> HIDE DEF q
  <1>5. DOMAIN q = 1 .. Len(q) /\ Len(q) = Len(p) - 1
    BY <1>1, <1>2, <1>3, <1>4, LenProperties
  <1>6. ASSUME NEW k \in 1 .. Len(q) PROVE \E j \in 1 .. Len(p) : q[k] = p[j]
    <2>1. CASE k <= i - 1
      BY <1>1, <1>2, <1>3, <1>4, <1>5, <2>1
    <2>2. CASE k > i - 1
      <3>1. q[k] = b[k - (i - 1)] /\ k - (i - 1) \in 1 .. Len(p) - i
        BY <1>1, <1>2, <1>3, <1>4, <1>5, <2>2
      <3>2. q[k] = p[i + (k - (i - 1))]
        BY <1>3, <3>1
      <3>3. i + (k - (i - 1)) \in 1 .. Len(p)
        <4>1. k \in Int /\ i \in Int /\ Len(p) \in Int /\ k - (i - 1) \in 1 .. Len(p) - i
          BY <1>1, <1>5, <3>1
        <4> QED
          BY <4>1
      <3> QED
        BY <3>2, <3>3
    <2> QED
      BY <1>1, <1>5, <2>1, <2>2
  <1>7. q \in Seq(S) /\ From(p, q)
    BY <1>1, <1>4, <1>5, <1>6 DEF From
  <1> QED
    BY <1>7 DEF q, a, b, RemoveAt

\* A list without its first entry.
LEMMA TailFrom ==
    ASSUME NEW S, NEW p \in Seq(S), p # <<>>
    PROVE  Tail(p) \in Seq(S) /\ From(p, Tail(p))
  <1> DEFINE q == Tail(p)
  <1>1. /\ q \in Seq(S) /\ Len(q) = Len(p) - 1 /\ Len(p) \in Nat \ {0}
        /\ \A i \in 1 .. Len(q) : q[i] = p[i + 1]
    BY EmptySeq, HeadTailProperties
  <1> HIDE DEF q
  <1>2. DOMAIN q = 1 .. Len(q) /\ DOMAIN p = 1 .. Len(p)
    BY <1>1, LenProperties
  <1>3. ASSUME NEW i \in 1 .. Len(q) PROVE i + 1 \in 1 .. Len(p)
    BY <1>1
  <1>4. q \in Seq(S) /\ From(p, q)
    BY <1>1, <1>2, <1>3 DEF From
  <1> QED
    BY <1>4 DEF q

\* The entries of some places, in an order.
LEMMA OrderedFrom ==
    ASSUME NEW S, NEW p \in Seq(S), NEW kept, kept \subseteq DOMAIN p,
           NEW order \in [1 .. Cardinality(kept) -> kept],
           NEW q, q = [i \in DOMAIN order |-> p[order[i]]]
    PROVE  q \in Seq(S) /\ From(p, q)
  <1>1. Len(p) \in Nat /\ DOMAIN p = 1 .. Len(p) /\ \A j \in DOMAIN p : p[j] \in S
    BY LenProperties
  <1>2. IsFiniteSet(kept)
    <2>1. IsFiniteSet(1 .. Len(p))
      BY <1>1, FS_Interval
    <2> QED
      BY <1>1, <2>1, FS_Subset
  <1>3. Cardinality(kept) \in Nat
    BY <1>2, FS_CardinalityType
  <1> DEFINE n == Cardinality(kept)
  <1> HIDE DEF n
  <1>4. order \in [1 .. n -> kept] /\ n \in Nat
    BY <1>3 DEF n
  <1>5. DOMAIN order = 1 .. n /\ \A i \in 1 .. n : order[i] \in kept
    BY <1>4
  <1>6. q \in [1 .. n -> S]
    BY <1>1, <1>5
  <1>7. q \in Seq(S)
    <2>1. q \in UNION {[1 .. m -> S] : m \in Nat}
      BY <1>4, <1>6
    <2> QED
      BY <2>1, SeqDef
  <1> QED
    BY <1>5, <1>7 DEF From

\* A step keeps entries, or puts the event that was just reported in front.
Feeds ==
    \A i \in DOMAIN pending' :
        \/ \E j \in DOMAIN pending : pending'[i] = pending[j]
        \/ \E d \in Descriptors : /\ pending'[i] = [descriptor |-> d, events |-> Reported(d)]
                                  /\ Reported(d) # {}

LEMMA PendingStep ==
    ASSUME pending \in Seq(Entries), available \in [Descriptors -> SUBSET Events], [ReactorNext]_rvars
    PROVE  pending' \in Seq(Entries) /\ Feeds
  <1>1. ASSUME UNCHANGED pending PROVE pending' \in Seq(Entries) /\ Feeds
    BY <1>1 DEF Feeds
  <1>2. ASSUME pending' \in Seq(Entries), From(pending, pending') PROVE pending' \in Seq(Entries) /\ Feeds
    BY <1>2 DEF From, Feeds
  <1>3. CASE UNCHANGED rvars
    BY <1>1, <1>3 DEF rvars
  <1>4. ASSUME NEW t \in Parties, SharedReactor(t) \/ StartPoll(t) PROVE UNCHANGED pending
    BY <1>4 DEF SharedReactor, Load, Claim, Create, Publish, Spin, HasHandle, StartPoll
  <1>5. ASSUME NEW w \in Waiters, WaitFor(w) PROVE pending' \in Seq(Entries) /\ Feeds
    <2>1. CASE Operate(w) \/ Watch(w) \/ PollTimesOut(w) \/ PollFails(w) \/ Yield(w)
      BY <1>1, <2>1 DEF Operate, Watch, PollTimesOut, PollFails, Yield
    <2>2. CASE TakePending(w)
      <3>1. PICK i \in For(w) : pending' = RemoveAt(pending, i)
        BY <2>2 DEF TakePending
      <3>2. i \in DOMAIN pending
        BY <3>1 DEF For
      <3> QED
        BY <1>2, <3>1, <3>2, RemovedFrom
    <2>3. ASSUME NEW d \in Descriptors, PollAnswers(w, d) PROVE UNCHANGED pending
      BY <2>3 DEF PollAnswers
    <2>4. ASSUME NEW d \in Descriptors, PollQueues(w, d) PROVE pending' \in Seq(Entries) /\ Feeds
      <3> DEFINE e == [descriptor |-> d, events |-> Reported(d)]
      <3>1. Reported(d) # {} /\ (pending' = <<e>> \o pending \/ pending' = pending)
        BY <2>4 DEF PollQueues, Push
      <3>2. e \in Entries
        <4>1. Reported(d) \in SUBSET Events
          BY <2>4 DEF Reported
        <4> QED
          BY <2>4, <4>1 DEF Entries
      <3>3. CASE pending' = pending
        BY <1>1, <3>3
      <3>4. CASE pending' = <<e>> \o pending
        <4> DEFINE one == <<e>>
                   q == one \o pending
        <4>1. one \in Seq(Entries) /\ Len(one) = 1 /\ one[1] = e
          BY <3>2
        <4>2. Len(pending) \in Nat /\ DOMAIN pending = 1 .. Len(pending)
          BY LenProperties
        <4> HIDE DEF one, e
        <4>3. /\ q \in Seq(Entries) /\ Len(q) = 1 + Len(pending)
              /\ \A i \in 1 .. 1 + Len(pending) : q[i] = IF i <= 1 THEN one[i] ELSE pending[i - 1]
          <5>1. /\ q \in Seq(Entries) /\ Len(q) = Len(one) + Len(pending)
                /\ \A i \in 1 .. Len(one) + Len(pending) :
                      q[i] = IF i <= Len(one) THEN one[i] ELSE pending[i - Len(one)]
            BY <4>1, ConcatProperties
          <5> QED
            BY <4>1, <5>1
        <4> HIDE DEF q
        <4>4. DOMAIN q = 1 .. 1 + Len(pending)
          BY <4>3, LenProperties
        <4>5. ASSUME NEW i \in 1 .. 1 + Len(pending)
              PROVE  q[i] = e \/ \E j \in DOMAIN pending : q[i] = pending[j]
          <5>1. CASE i = 1
            BY <4>1, <4>2, <4>3, <5>1
          <5>2. CASE i # 1
            <6>1. q[i] = pending[i - 1] /\ i - 1 \in DOMAIN pending
              BY <4>2, <4>3, <5>2
            <6> QED
              BY <6>1
          <5> QED
            BY <5>1, <5>2
        <4>6. pending' = q
          BY <3>4 DEF q, one
        <4> QED
          BY <3>1, <4>3, <4>4, <4>5, <4>6 DEF Feeds, e
      <3> QED
        BY <3>1, <3>3, <3>4
    <2>5. CASE Unwatch(w)
      <3>1. PICK order \in [1 .. Cardinality(Others(w)) -> Others(w)] :
                pending' = [i \in DOMAIN order |-> pending[order[i]]]
        BY <2>5 DEF Unwatch
      <3>2. Others(w) \subseteq DOMAIN pending
        BY DEF Others
      <3>3. pending' \in Seq(Entries) /\ From(pending, pending')
        BY <3>1, <3>2, OrderedFrom
      <3> QED
        BY <1>2, <3>3
    <2> QED
      BY <1>1, <1>5, <2>1, <2>2, <2>3, <2>4, <2>5 DEF WaitFor
  <1>6. CASE Poll
    <2>1. CASE PollTakesAny
      BY <1>2, <2>1, TailFrom DEF PollTakesAny
    <2>2. CASE PollReturns \/ PollAgain
      BY <1>1, <2>2 DEF PollReturns, PollAgain
    <2> QED
      BY <1>6, <2>1, <2>2 DEF Poll
  <1>7. ASSUME NEW d \in Descriptors, NEW e \in Events, Happens(d, e) PROVE UNCHANGED pending
    BY <1>7 DEF Happens
  <1> QED
    BY <1>1, <1>3, <1>4, <1>5, <1>6, <1>7 DEF ReactorNext

-----------------------------------------------------------------------------
(* reactorShared.                                                            *)

\* Where the thread that makes the reactor is, and where those that have it are.
Making(t) == doing[t] \in {"create", "publish"}
HasIt(t) == doing[t] \in Places \ {"operate", "start", "claim", "create", "publish", "spin"}

(* The inductive invariant.  State 0: nobody has begun; 1: one thread is at  *)
(* it, and the reactor exists once that thread is past reactorCreate; 2: it  *)
(* exists and nobody makes another.                                         *)
Maker ==
    /\ shared = 0 => ~handle /\ created = 0 /\ \A t \in Parties : ~Making(t) /\ doing[t] # "spin"
    /\ shared = 2 => handle /\ created = 1 /\ \A t \in Parties : ~Making(t)
    /\ shared = 1 => \A t \in Parties :
           /\ doing[t] = "create" => ~handle /\ created = 0
           /\ doing[t] = "publish" => handle /\ created = 1
    /\ shared = 1 => created <= 1
    /\ \A t, u \in Parties : Making(t) /\ Making(u) => t = u
    /\ \A t \in Parties : HasIt(t) => shared = 2

IInv == ReactorType /\ Maker

\* Before any thread has asked for it there is no reactor.
LEMMA InitInv == ReactorInit => IInv
  <1> SUFFICES ASSUME ReactorInit PROVE IInv
    OBVIOUS
  <1>1. ReactorType
    <2>0. pending \in Seq(Entries) /\ interrupts \in Nat
      BY DEF ReactorInit
    <2>1. rounds \in [Waiters -> Nat]
      BY ReactorConstants DEF ReactorInit
    <2>2. /\ doing \in [Parties -> Places]
          /\ watched \in [Descriptors -> SUBSET Events]
          /\ available \in [Descriptors -> SUBSET Events]
      BY DEF ReactorInit, Places
    <2>3. handle \in BOOLEAN
      BY Zenon DEF ReactorInit
    <2>4. shared \in 0 .. 2 /\ created \in Nat
      BY DEF ReactorInit
    <2>5. mutex \in Parties \cup {Nobody}
      BY DEF ReactorInit
    <2> QED
      BY <2>0, <2>1, <2>2, <2>3, <2>4, <2>5 DEF ReactorType
  <1>2. Maker
    BY DEF ReactorInit, Maker, Making, HasIt, Places
  <1> QED
    BY <1>1, <1>2 DEF IInv

\* The steps of reactorShared take the state from 0 over 1 to 2, one thread each.
LEMMA SharedReactorInv ==
    ASSUME IInv, NEW t \in Parties, SharedReactor(t)
    PROVE  IInv'
  <1> USE DEF IInv, ReactorType, Maker, Making, HasIt, Places, Goto, once, kernel, budget
  <1>1. CASE Load(t)
    BY <1>1 DEF Load
  <1>2. CASE Claim(t)
    BY <1>2 DEF Claim
  <1>3. CASE Create(t)
    BY <1>3 DEF Create
  <1>4. CASE Publish(t)
    BY <1>4 DEF Publish
  <1>5. CASE Spin(t)
    BY <1>5 DEF Spin
  <1>6. CASE HasHandle(t)
    BY <1>6 DEF HasHandle
  <1> QED
    BY <1>1, <1>2, <1>3, <1>4, <1>5, <1>6 DEF SharedReactor

\* The steps that leave reactorShared's variables alone, and move a thread only
\* between places where they need nothing of it, or where it has the reactor.
LEMMA OtherStepInv ==
    ASSUME IInv, ReactorType', UNCHANGED once, NEW t \in Parties, NEW to \in Places,
           doing' = [doing EXCEPT ![t] = to],
           ~Making(t), to \notin {"create", "publish", "spin"},
           HasIt(t) \/ to \in {"operate", "start", "claim"}
    PROVE  IInv'
  <1> USE DEF IInv, ReactorType, Maker, Making, HasIt, Places, once
  <1>1. Maker'
    OBVIOUS
  <1> QED
    BY <1>1

\* An operation, a registration and the end of a wait.
LEMMA WaitForInv ==
    ASSUME IInv, pending' \in Seq(Entries), NEW w \in Waiters, WaitFor(w)
    PROVE  IInv'
  <1>0. w \in Parties /\ Of(w) \in Descriptors
    BY ReactorConstants DEF Parties, Of
  <1>1. CASE Operate(w)
    <2>1. ReactorType'
      BY <1>0, <1>1 DEF Operate, IInv, ReactorType, Goto, once, Places
    <2>2. CASE UNCHANGED doing
      BY <1>1, <2>1, <2>2 DEF Operate, IInv, Maker, Making, HasIt, once
    <2>3. CASE Goto(w, "operate", "start")
      BY <1>0, <1>1, <2>1, <2>3, OtherStepInv DEF Operate, Goto, Making, Places
    <2> QED
      BY <1>1, <2>2, <2>3 DEF Operate
  <1>2. CASE Watch(w)
    <2>1. Wanted(w) \in SUBSET Events
      BY ReactorConstants DEF Wanted, Always, Events
    <2>2. ReactorType'
      BY <1>0, <1>2, <2>1 DEF Watch, IInv, ReactorType, Goto, once, budget, Places
    <2> QED
      BY <1>0, <1>2, <2>2, OtherStepInv DEF Watch, Goto, Making, HasIt, Places
  <1>3. CASE TakePending(w)
    <2>1. ReactorType'
      BY <1>0, <1>3 DEF TakePending, IInv, ReactorType, Goto, once, kernel, budget, Places
    <2> QED
      BY <1>0, <1>3, <2>1, OtherStepInv DEF TakePending, Goto, Making, HasIt, Places
  <1>4. CASE \E d \in Descriptors : PollAnswers(w, d) \/ PollQueues(w, d)
    <2>1. ReactorType'
      BY <1>0, <1>4 DEF PollAnswers, PollQueues, IInv, ReactorType, Goto, once, kernel, budget, Places
    <2> QED
      BY <1>0, <1>4, <2>1, OtherStepInv DEF PollAnswers, PollQueues, Goto, Making, HasIt, Places
  <1>5. CASE PollTimesOut(w) \/ PollFails(w)
    <2>1. /\ UNCHANGED <<once, pending, kernel, rounds>> /\ mutex' = Nobody
          /\ interrupts' \in {interrupts, interrupts + 1}
          /\ \E place \in Places : doing' = [doing EXCEPT ![w] = place]
      BY <1>5 DEF PollTimesOut, PollFails, Goto, budget, Places
    <2>2. ReactorType'
      BY <1>0, <2>1 DEF IInv, ReactorType, once, kernel
    <2> QED
      BY <1>0, <1>5, <2>2, OtherStepInv DEF PollTimesOut, PollFails, Goto, Making, HasIt, Places
  <1>6. CASE Yield(w)
    <2>1. ReactorType'
      BY <1>0, <1>6 DEF Yield, IInv, ReactorType, Goto, once, kernel, budget, Places
    <2> QED
      BY <1>0, <1>6, <2>1, OtherStepInv DEF Yield, Goto, Making, HasIt, Places
  <1>7. CASE Unwatch(w)
    <2>1. ReactorType'
      BY <1>0, <1>7 DEF Unwatch, IInv, ReactorType, Goto, once, budget, Places
    <2> QED
      BY <1>0, <1>7, <2>1, OtherStepInv DEF Unwatch, Goto, Making, HasIt, Places
  <1> QED
    BY <1>1, <1>2, <1>3, <1>4, <1>5, <1>6, <1>7 DEF WaitFor

\* The thread that polls for anybody's event.
LEMMA PollInv ==
    ASSUME IInv, pending' \in Seq(Entries), Poll
    PROVE  IInv'
  <1>0. Poller \in Parties
    BY DEF Parties
  <1>1. ReactorType'
    BY <1>0 DEF Poll, PollTakesAny, PollReturns, PollAgain, IInv, ReactorType, Goto, once, kernel, budget, Places
  <1> QED
    BY <1>0, <1>1, OtherStepInv
    DEF Poll, PollTakesAny, PollReturns, PollAgain, Goto, Making, HasIt, Places

\* Every step keeps the invariant.
LEMMA NextInv == IInv /\ [ReactorNext]_rvars => IInv'
  <1> SUFFICES ASSUME IInv, [ReactorNext]_rvars PROVE IInv'
    OBVIOUS
  <1>0. pending' \in Seq(Entries)
    BY PendingStep DEF IInv, ReactorType
  <1>1. CASE \E t \in Parties : SharedReactor(t)
    BY <1>1, SharedReactorInv
  <1>2. ASSUME NEW t \in Parties, StartPoll(t) PROVE IInv'
    <2>1. ReactorType'
      BY <1>2 DEF StartPoll, IInv, ReactorType, Goto, once, kernel, budget, Places
    <2> QED
      BY <1>2, <2>1, OtherStepInv DEF StartPoll, Goto, Making, HasIt, Places
  <1>3. CASE \E w \in Waiters : WaitFor(w)
    BY <1>0, <1>3, WaitForInv
  <1>4. CASE Poll
    BY <1>0, <1>4, PollInv
  <1>5. ASSUME NEW d \in Descriptors, NEW e \in Events, Happens(d, e) PROVE IInv'
    <2>1. ReactorType'
      BY <1>5 DEF Happens, IInv, ReactorType, once, budget
    <2> QED
      BY <1>5, <2>1 DEF Happens, IInv, Maker, Making, HasIt, once
  <1>6. CASE UNCHANGED rvars
    BY <1>6 DEF rvars, once, kernel, budget, IInv, ReactorType, Maker, Making, HasIt
  <1> QED
    BY <1>1, <1>2, <1>3, <1>4, <1>5, <1>6 DEF ReactorNext

LEMMA Invariant == ReactorSpec => []IInv
  <1> QED
    BY InitInv, NextInv, PTL DEF ReactorSpec

(* Every variable keeps its type.                                           *)
THEOREM TypeCorrect == ReactorSpec => []ReactorType
  <1>1. IInv => ReactorType
    BY DEF IInv
  <1> QED
    BY <1>1, Invariant, PTL

(* One reactor is made, and whoever watches or polls has it (reactorShared). *)
THEOREM MadeOnce == ReactorSpec => []SharedOnce
  <1>1. IInv => SharedOnce
    BY DEF IInv, ReactorType, Maker, HasIt, Places, SharedOnce
  <1> QED
    BY <1>1, Invariant, PTL

-----------------------------------------------------------------------------
(* A waiter that has its socket to itself, while no poll has failed.  Until  *)
(* it watches, nothing is registered or pending for its descriptor; what is   *)
(* pending later is still so, since nobody else uses up what the socket has.  *)
Outside == {"operate", "start", "claim", "create", "publish", "spin", "handle", "watch"}

FreshAt(w) ==
    interrupts = 0 =>
        /\ doing[w] \in Outside =>
              /\ watched[Of(w)] = {}
              /\ \A i \in DOMAIN pending : pending[i].descriptor # Of(w)
        /\ \A i \in DOMAIN pending :
              pending[i].descriptor = Of(w) => pending[i].events \subseteq available[Of(w)]
        /\ doing[w] = "unwatch" => available[Of(w)] \cap Wanted(w) # {}

Fresh == \A w \in Waiters : Alone(w) => FreshAt(w)

\* Steps of others, and those of the waiter that change nothing of its own.
LEMMA StaysFresh ==
    ASSUME ReactorType, ReactorType', Feeds, NEW w \in Waiters, FreshAt(w), interrupts' = 0 => interrupts = 0,
           watched'[Of(w)] = watched[Of(w)],
           available[Of(w)] \subseteq available'[Of(w)],
           doing'[w] = "unwatch" => doing[w] = "unwatch",
           doing'[w] \in Outside => doing[w] \in Outside
    PROVE  FreshAt(w)'
  <1> SUFFICES ASSUME interrupts = 0, interrupts' = 0 PROVE FreshAt(w)'
    BY DEF FreshAt
  <1>1. ASSUME NEW i \in DOMAIN pending', pending'[i].descriptor = Of(w)
        PROVE  /\ pending'[i].events \subseteq available'[Of(w)]
               /\ doing[w] \notin Outside
    <2>1. CASE \E j \in DOMAIN pending : pending'[i] = pending[j]
      BY <1>1, <2>1 DEF FreshAt
    <2>2. CASE \E d \in Descriptors : /\ pending'[i] = [descriptor |-> d, events |-> Reported(d)]
                                      /\ Reported(d) # {}
      <3>1. /\ pending'[i].events = Reported(Of(w)) /\ Reported(Of(w)) # {}
        BY <1>1, <2>2
      <3> QED
        BY <3>1 DEF FreshAt, Reported
    <2> QED
      BY <1>1, <2>1, <2>2 DEF Feeds
  <1>2. doing'[w] \in Outside => watched'[Of(w)] = {} /\ \A i \in DOMAIN pending' : pending'[i].descriptor # Of(w)
    BY <1>1 DEF FreshAt
  <1>3. doing'[w] = "unwatch" => available'[Of(w)] \cap Wanted(w) # {}
    BY DEF FreshAt
  <1> QED
    BY <1>1, <1>2, <1>3 DEF FreshAt, Of, Wanted

\* The waiter's own steps.
LEMMA OwnStep ==
    ASSUME ReactorType, ReactorType', Feeds, NEW w \in Waiters, FreshAt(w), WaitFor(w)
    PROVE  FreshAt(w)'
  <1>0. /\ doing \in [Parties -> Places] /\ watched \in [Descriptors -> SUBSET Events]
        /\ available \in [Descriptors -> SUBSET Events] /\ interrupts \in Nat
        /\ w \in Parties /\ Of(w) \in Descriptors /\ DOMAIN doing = Parties
    BY ReactorConstants DEF ReactorType, Parties, Of
  <1>1. CASE Operate(w)
    <2>1. /\ doing[w] = "operate" /\ UNCHANGED <<pending, watched, interrupts>>
          /\ doing' = doing \/ doing' = [doing EXCEPT ![w] = "start"]
      BY <1>1 DEF Operate, Goto
    <2>2. doing[w] \in Outside /\ doing'[w] \in Outside /\ doing'[w] # "unwatch"
      BY <1>0, <2>1 DEF Outside
    <2> QED
      BY <2>1, <2>2 DEF FreshAt, Of
  <1>2. CASE Watch(w)
    <2>1. UNCHANGED <<pending, available, interrupts>> /\ doing'[w] = "poll"
      BY <1>0, <1>2 DEF Watch, Goto, budget
    <2> QED
      BY <2>1 DEF FreshAt, Of, Outside
  <1>3. CASE TakePending(w)
    <2>1. UNCHANGED <<available, watched, interrupts>> /\ doing'[w] = "unwatch"
      BY <1>0, <1>3 DEF TakePending, Goto, kernel, budget
    <2>2. PICK i \in For(w) : TRUE
      BY <1>3 DEF TakePending
    <2>3. ASSUME interrupts = 0 PROVE available[Of(w)] \cap Wanted(w) # {}
      BY <2>2, <2>3 DEF For, FreshAt
    <2>4. ASSUME interrupts = 0, NEW k \in DOMAIN pending', pending'[k].descriptor = Of(w)
          PROVE  pending'[k].events \subseteq available[Of(w)]
      <3>1. CASE \E j \in DOMAIN pending : pending'[k] = pending[j]
        BY <2>4, <3>1 DEF FreshAt
      <3>2. CASE \E d \in Descriptors : pending'[k] = [descriptor |-> d, events |-> Reported(d)]
        <4>1. pending'[k].events = Reported(Of(w))
          BY <2>4, <3>2
        <4> QED
          BY <4>1 DEF Reported
      <3> QED
        BY <2>4, <3>1, <3>2 DEF Feeds
    <2> QED
      BY <2>1, <2>3, <2>4 DEF FreshAt, Of, Wanted, Outside
  <1>4. ASSUME NEW d \in Descriptors, PollAnswers(w, d) PROVE FreshAt(w)'
    <2>1. UNCHANGED <<available, watched, pending, interrupts>> /\ doing'[w] = "unwatch"
      BY <1>0, <1>4 DEF PollAnswers, Goto, kernel, budget
    <2>2. available[Of(w)] \cap Wanted(w) # {}
      BY <1>4 DEF PollAnswers, Reported
    <2> QED
      BY <2>1, <2>2 DEF FreshAt, Of, Wanted, Outside
  <1>5. CASE PollTimesOut(w) \/ Yield(w) \/ \E d \in Descriptors : PollQueues(w, d)
    <2>1. UNCHANGED <<available, watched, interrupts>> /\ doing'[w] \in {"yield", "poll"}
      BY <1>0, <1>5 DEF PollTimesOut, Yield, PollQueues, Goto, kernel, budget
    <2> QED
      BY <2>1, StaysFresh DEF Outside
  <1>6. CASE PollFails(w)
    <2>1. interrupts' # 0
      BY <1>0, <1>6 DEF PollFails
    <2> QED
      BY <2>1 DEF FreshAt
  <1>7. CASE Unwatch(w)
    <2>1. /\ UNCHANGED <<available, interrupts>> /\ doing'[w] = "operate"
          /\ watched' = [watched EXCEPT ![Of(w)] = {}]
      BY <1>0, <1>7 DEF Unwatch, Goto, budget
    <2>2. watched'[Of(w)] = {}
      BY <1>0, <2>1
    <2>3. \A i \in DOMAIN pending' : pending'[i].descriptor # Of(w)
      <3>1. PICK order \in [1 .. Cardinality(Others(w)) -> Others(w)] :
                pending' = [i \in DOMAIN order |-> pending[order[i]]]
        BY <1>7 DEF Unwatch
      <3>2. ASSUME NEW i \in DOMAIN pending' PROVE pending'[i] = pending[order[i]] /\ order[i] \in Others(w)
        BY <3>1
      <3> QED
        BY <3>2 DEF Others
    <2> QED
      BY <2>1, <2>2, <2>3 DEF FreshAt, Of, Outside
  <1> QED
    BY <1>1, <1>2, <1>3, <1>4, <1>5, <1>6, <1>7 DEF WaitFor

\* Another waiter uses another socket.
LEMMA OtherStep ==
    ASSUME ReactorType, ReactorType', Feeds, NEW w \in Waiters, Alone(w), FreshAt(w),
           NEW v \in Waiters, v # w, WaitFor(v)
    PROVE  FreshAt(w)'
  <1>0. /\ doing \in [Parties -> Places] /\ watched \in [Descriptors -> SUBSET Events]
        /\ available \in [Descriptors -> SUBSET Events] /\ interrupts \in Nat
        /\ v \in Parties /\ w \in Parties /\ Of(w) \in Descriptors /\ Of(v) \in Descriptors
    BY ReactorConstants DEF ReactorType, Parties, Of
  <1>1. Of(v) # Of(w)
    BY DEF Alone
  <1>2. doing'[w] = doing[w]
    BY <1>0 DEF WaitFor, Operate, Watch, TakePending, PollAnswers, PollQueues, PollTimesOut, PollFails, Yield, Unwatch, Goto
  <1>3. watched'[Of(w)] = watched[Of(w)]
    BY <1>0, <1>1 DEF WaitFor, Operate, Watch, TakePending, PollAnswers, PollQueues, PollTimesOut, PollFails, Yield, Unwatch, kernel
  <1>4. available'[Of(w)] = available[Of(w)]
    BY <1>0, <1>1 DEF WaitFor, Operate, Watch, TakePending, PollAnswers, PollQueues, PollTimesOut, PollFails, Yield, Unwatch, kernel
  <1>5. interrupts' = 0 => interrupts = 0
    BY <1>0 DEF WaitFor, Operate, Watch, TakePending, PollAnswers, PollQueues, PollTimesOut, PollFails, Yield, Unwatch, budget
  <1> QED
    BY <1>2, <1>3, <1>4, <1>5, StaysFresh

LEMMA FreshInv ==
    ASSUME ReactorType, ReactorType', Fresh, Feeds, [ReactorNext]_rvars
    PROVE  Fresh'
  <1> SUFFICES ASSUME NEW w \in Waiters, Alone(w) PROVE FreshAt(w)'
    BY DEF Fresh, Alone, Of
  <1>0. /\ doing \in [Parties -> Places] /\ available \in [Descriptors -> SUBSET Events]
        /\ w \in Parties /\ w # Poller /\ Of(w) \in Descriptors /\ FreshAt(w)
    BY ReactorConstants DEF ReactorType, Parties, Of, Fresh
  <1>1. ASSUME UNCHANGED <<watched, interrupts>>, available[Of(w)] \subseteq available'[Of(w)],
               doing'[w] = "unwatch" => doing[w] = "unwatch",
               doing'[w] \in Outside => doing[w] \in Outside
        PROVE  FreshAt(w)'
    BY <1>0, <1>1, StaysFresh
  <1>2. ASSUME NEW t \in Parties, SharedReactor(t) PROVE FreshAt(w)'
    <2>1. UNCHANGED <<watched, interrupts, available>>
      BY <1>2 DEF SharedReactor, Load, Claim, Create, Publish, Spin, HasHandle, kernel, budget
    <2>2. CASE t = w
      <3>1. doing[w] \in Outside /\ doing'[w] # "unwatch"
        BY <1>0, <1>2, <2>2 DEF SharedReactor, Load, Claim, Create, Publish, Spin, HasHandle, Goto, Outside
      <3> QED
        BY <1>1, <2>1, <3>1
    <2>3. CASE t # w
      <3>1. doing'[w] = doing[w]
        BY <1>0, <1>2, <2>3 DEF SharedReactor, Load, Claim, Create, Publish, Spin, HasHandle, Goto
      <3> QED
        BY <1>1, <2>1, <3>1
    <2> QED
      BY <2>2, <2>3
  <1>3. ASSUME NEW t \in Parties, StartPoll(t) PROVE FreshAt(w)'
    <2>1. UNCHANGED <<watched, interrupts, available>> /\ (doing'[w] = doing[w] \/ doing'[w] = "polling")
      BY <1>0, <1>3 DEF StartPoll, Goto, kernel, budget
    <2> QED
      BY <1>1, <2>1 DEF Outside
  <1>4. ASSUME NEW v \in Waiters, WaitFor(v) PROVE FreshAt(w)'
    BY <1>0, <1>4, OwnStep, OtherStep
  <1>5. CASE Poll
    <2>1. UNCHANGED <<watched, interrupts, available>> /\ doing'[w] = doing[w]
      BY <1>0, <1>5 DEF Poll, PollTakesAny, PollReturns, PollAgain, Goto, kernel, budget
    <2> QED
      BY <1>1, <2>1
  <1>6. ASSUME NEW d \in Descriptors, NEW e \in Events, Happens(d, e) PROVE FreshAt(w)'
    <2>1. UNCHANGED <<watched, interrupts, doing>> /\ available' = [available EXCEPT ![d] = @ \cup {e}]
      BY <1>6 DEF Happens, budget
    <2> QED
      BY <1>0, <1>1, <2>1
  <1>7. CASE UNCHANGED rvars
    BY <1>0, <1>1, <1>7 DEF rvars, kernel, budget
  <1> QED
    BY <1>2, <1>3, <1>4, <1>5, <1>6, <1>7 DEF ReactorNext

(* A waiter alone on its socket finds what it was resumed for, while no poll *)
(* has failed: events queued for it are still true when it takes them, since  *)
(* unwatch clears what is left (reactorPendingTake, reactorPendingRemove).    *)
THEOREM ResumedForAReason == ReactorSpec => []NotResumedInVain
  <1>1. ReactorInit => Fresh
    BY ReactorConstants DEF ReactorInit, Fresh, FreshAt, Of, Parties
  <1>2. IInv /\ IInv' /\ Fresh /\ [ReactorNext]_rvars => Fresh'
    <2> SUFFICES ASSUME IInv, IInv', Fresh, [ReactorNext]_rvars PROVE Fresh'
      OBVIOUS
    <2>1. ReactorType /\ ReactorType'
      BY DEF IInv
    <2>2. Feeds
      BY <2>1, PendingStep DEF ReactorType
    <2> QED
      BY <2>1, <2>2, FreshInv
  <1>3. Fresh => NotResumedInVain
    BY DEF Fresh, FreshAt, NotResumedInVain
  <1> QED
    BY <1>1, <1>2, <1>3, Invariant, PTL DEF ReactorSpec
=============================================================================
