------------------------- MODULE AsyncPromiseProofs -------------------------
(* Proofs about AsyncPromise.  Whatever calls the two threads make, and      *)
(* however these overlap, nobody gets a value that no body has written.  If   *)
(* they do not overlap, the captured values go to one place once.  And the    *)
(* calls that programs make never touch the promise after it was freed.       *)
EXTENDS AsyncPromise, SequenceTheorems, TLAPS

\* A thread inside a call still has that call in its script.
Calling == \A t \in Threads : pc[t] # "idle" => script[t] # <<>>

(* The inductive invariant.  State 2 and the answer "ok" are only ever made  *)
(* out of each other and of a body's end, by way of the copies.             *)
Published ==
    finished = 0 =>
        /\ state # 2
        /\ \A t \in Threads : copy[t].state # 2 /\ answer[t] # "ok"

IInv == PromiseType /\ Calling /\ Published

\* The reference fields, counted anew and attached to a group or not.
LEMMA RefsChange ==
    ASSUME NEW r \in Refs, NEW n \in Int, NEW g \in BOOLEAN
    PROVE  [r EXCEPT !.count = n, !.group = g] \in Refs
  BY Zenon DEF Refs

\* A cold promise.
LEMMA InitInv == PromiseInit => IInv
  <1> SUFFICES ASSUME PromiseInit PROVE IInv
    OBVIOUS
  <1>1. PICK s \in Scripts : script = [t \in Threads |-> IF t = Owner THEN s[1] ELSE s[2]]
    BY DEF PromiseInit
  <1>2. s[1] \in Seq(Calls) /\ s[2] \in Seq(Calls)
    BY PromiseConstants
  <1>3. script \in [Threads -> Seq(Calls)]
    BY <1>1, <1>2
  <1>4. refs \in Refs /\ copy \in [Threads -> Copies]
    BY DEF PromiseInit, Refs, Copies
  <1>5. freed \in BOOLEAN
    BY Zenon DEF PromiseInit
  <1>6. /\ state \in 0 .. 3
        /\ polls \in Nat /\ finished \in Nat /\ drops \in Nat
        /\ pc \in [Threads -> {"idle", "copy", "poll", "sleep", "woken"}]
        /\ copied \in [Threads -> SUBSET {"state", "refs"}]
        /\ answer \in [Threads -> {"none", "ok", "cancelled"}]
    BY DEF PromiseInit
  <1>7. Calling /\ Published
    BY DEF PromiseInit, Calling, Published
  <1> QED
    BY <1>3, <1>4, <1>5, <1>6, <1>7 DEF IInv, PromiseType

\* The end of a call takes it from its script, which stays one of calls.
LEMMA Returned ==
    ASSUME IInv, NEW t \in Threads, pc[t] # "idle"
    PROVE  LET s == [script EXCEPT ![t] = Tail(@)]
               p == [pc EXCEPT ![t] = "idle"]
           IN  /\ s \in [Threads -> Seq(Calls)]
               /\ p \in [Threads -> {"idle", "copy", "poll", "sleep", "woken"}]
               /\ \A u \in Threads : p[u] # "idle" => s[u] # <<>>
  <1>1. script[t] \in Seq(Calls) /\ script[t] # <<>>
    BY DEF IInv, PromiseType, Calling
  <1>2. Tail(script[t]) \in Seq(Calls)
    BY <1>1
  <1> QED
    BY <1>2 DEF IInv, PromiseType, Calling

\* A broadcast makes nobody idle, and nobody else busy.
LEMMA Woken ==
    ASSUME NEW p \in [Threads -> {"idle", "copy", "poll", "sleep", "woken"}]
    PROVE  /\ Wake(p) \in [Threads -> {"idle", "copy", "poll", "sleep", "woken"}]
           /\ \A u \in Threads : Wake(p)[u] # "idle" <=> p[u] # "idle"
  BY DEF Wake

\* The copy before the lock gets what the structure holds.
LEMMA CopyInv ==
    ASSUME IInv, NEW t \in Threads, Begin(t) \/ CopyPart(t) \/ SpuriousPromiseWake(t)
    PROVE  IInv'
  <1>1. CASE Begin(t)
    BY <1>1 DEF IInv, PromiseType, Calling, Published, Begin, Enabled, memory, body
  <1>2. CASE CopyPart(t)
    <2>1. CASE copy' = [copy EXCEPT ![t].state = state] /\ copied' = [copied EXCEPT ![t] = @ \cup {"state"}]
      BY <1>2, <2>1 DEF IInv, PromiseType, Calling, Published, CopyPart, Copies, memory, body
    <2>2. CASE copy' = [copy EXCEPT ![t].refs = refs] /\ copied' = [copied EXCEPT ![t] = @ \cup {"refs"}]
      BY <1>2, <2>2 DEF IInv, PromiseType, Calling, Published, CopyPart, Copies, memory, body
    <2> QED
      BY <1>2, <2>1, <2>2 DEF CopyPart
  <1>3. CASE SpuriousPromiseWake(t)
    BY <1>3 DEF IInv, PromiseType, Calling, Published, SpuriousPromiseWake, memory, body
  <1> QED
    BY <1>1, <1>2, <1>3

\* asyncAttachGroup, asyncRetain and asyncCancelQueued store the state they copied, or 3.
LEMMA StoreInv ==
    ASSUME IInv, NEW t \in Threads, AsyncAttachGroup(t) \/ AsyncRetain(t) \/ AsyncCancelQueued(t)
    PROVE  IInv'
  <1>0. copy[t].state \in 0 .. 3 /\ copy[t].refs \in Refs
    BY DEF IInv, PromiseType, Copies
  <1>1. CASE AsyncAttachGroup(t)
    <2>1. pc[t] # "idle"
      BY <1>1 DEF AsyncAttachGroup, Section
    <2>2. [copy[t].refs EXCEPT !.count = @ + 1, !.group = TRUE] \in Refs
      <3>1. copy[t].refs.count + 1 \in Int /\ TRUE \in BOOLEAN
        BY <1>0 DEF Refs
      <3> QED
        BY <1>0, <3>1, RefsChange
    <2>3. /\ script' \in [Threads -> Seq(Calls)]
          /\ pc' \in [Threads -> {"idle", "copy", "poll", "sleep", "woken"}]
          /\ Calling'
      BY <1>1, <2>1, Returned DEF AsyncAttachGroup, Return, Calling
    <2>4. state' \in {state, copy[t].state} /\ refs' \in Refs
      BY <1>0, <1>1, <2>2 DEF AsyncAttachGroup, Store, IInv, PromiseType
    <2>5. UNCHANGED <<freed, polls, finished, drops, copied, copy, answer>>
      BY <1>1 DEF AsyncAttachGroup, body
    <2> QED
      BY <1>0, <2>3, <2>4, <2>5 DEF IInv, PromiseType, Published
  <1>2. CASE AsyncRetain(t)
    <2>1. pc[t] # "idle"
      BY <1>2 DEF AsyncRetain, Section
    <2>2. [copy[t].refs EXCEPT !.count = @ + 1] \in Refs
      BY <1>0 DEF Refs
    <2> QED
      BY <1>0, <1>2, <2>1, <2>2, Returned
      DEF IInv, PromiseType, Calling, Published, AsyncRetain, Return, Store, body
  <1>3. CASE AsyncCancelQueued(t)
    <2>1. pc[t] # "idle"
      BY <1>3 DEF AsyncCancelQueued, Section
    <2> DEFINE p == [pc EXCEPT ![t] = "idle"]
    <2>2. p \in [Threads -> {"idle", "copy", "poll", "sleep", "woken"}]
      BY <2>1, Returned
    <2>3. pc' = p \/ pc' = Wake(p)
      BY <1>3 DEF AsyncCancelQueued
    <2>4. /\ pc' \in [Threads -> {"idle", "copy", "poll", "sleep", "woken"}]
          /\ \A u \in Threads : pc'[u] # "idle" <=> p[u] # "idle"
      BY <2>2, <2>3, Woken
    <2>5. script' \in [Threads -> Seq(Calls)] /\ Calling'
      BY <1>3, <2>1, <2>4, Returned DEF AsyncCancelQueued, Calling
    <2> QED
      BY <1>0, <1>3, <2>4, <2>5 DEF IInv, PromiseType, Published, AsyncCancelQueued, Store, body
  <1> QED
    BY <1>1, <1>2, <1>3

\* asyncWait: 2 is stored, and "ok" answered, where a body has ended.
LEMMA WaitInv ==
    ASSUME IInv, NEW t \in Threads,
           \/ WaitReturns(t) \/ WaitSleeps(t) \/ WaitStarts(t) \/ WaitEnds(t) \/ WaitWakes(t)
    PROVE  IInv'
  <1>0. copy[t].state \in 0 .. 3 /\ copy[t].refs \in Refs
    BY DEF IInv, PromiseType, Copies
  <1>1. CASE WaitReturns(t)
    <2>1. pc[t] # "idle"
      BY <1>1 DEF WaitReturns, Section
    <2> QED
      BY <1>1, <2>1, Returned
      DEF IInv, PromiseType, Calling, Published, WaitReturns, Return, memory, body
  <1>2. CASE WaitSleeps(t)
    BY <1>2 DEF IInv, PromiseType, Calling, Published, WaitSleeps, Section, memory, body
  <1>3. CASE WaitStarts(t)
    BY <1>0, <1>3 DEF IInv, PromiseType, Calling, Published, WaitStarts, Section, Store
  <1>4. CASE WaitEnds(t)
    <2>1. pc[t] # "idle"
      BY <1>4 DEF WaitEnds
    <2> DEFINE p == [pc EXCEPT ![t] = "idle"]
    <2>2. p \in [Threads -> {"idle", "copy", "poll", "sleep", "woken"}]
      BY <2>1, Returned
    <2>3. /\ pc' \in [Threads -> {"idle", "copy", "poll", "sleep", "woken"}]
          /\ \A u \in Threads : pc'[u] # "idle" <=> p[u] # "idle"
      BY <1>4, <2>2, Woken DEF WaitEnds
    <2>4. script' \in [Threads -> Seq(Calls)] /\ Calling'
      BY <1>4, <2>1, <2>3, Returned DEF WaitEnds, Calling
    <2>5. finished' \in Nat /\ finished' # 0 /\ state' \in 0 .. 3
      BY <1>4 DEF WaitEnds, IInv, PromiseType
    <2> QED
      BY <1>4, <2>3, <2>4, <2>5 DEF IInv, PromiseType, Published, WaitEnds
  <1>5. CASE WaitWakes(t)
    <2>1. CASE state = 1
      BY <1>5, <2>1 DEF IInv, PromiseType, Calling, Published, WaitWakes, memory, body
    <2>2. CASE state # 1
      <3>1. pc[t] # "idle"
        BY <1>5 DEF WaitWakes
      <3>2. /\ script' \in [Threads -> Seq(Calls)]
            /\ pc' \in [Threads -> {"idle", "copy", "poll", "sleep", "woken"}]
            /\ Calling'
        BY <1>5, <2>2, <3>1, Returned DEF WaitWakes, Return, Calling
      <3>3. UNCHANGED <<state, refs, freed, polls, finished, drops, copied, copy>>
        BY <1>5 DEF WaitWakes, memory, body
      <3>4. answer' = [answer EXCEPT ![t] = IF state = 2 THEN "ok" ELSE "cancelled"]
        BY <1>5, <2>2 DEF WaitWakes
      <3> QED
        BY <3>2, <3>3, <3>4 DEF IInv, PromiseType, Published
    <2> QED
      BY <2>1, <2>2
  <1> QED
    BY <1>1, <1>2, <1>3, <1>4, <1>5

\* asyncRelease: the state stays as it was copied, or the promise is freed.
LEMMA ReleaseInv ==
    ASSUME IInv, NEW t \in Threads, ReleaseKeeps(t) \/ ReleaseLast(t)
    PROVE  IInv'
  <1>0. copy[t].state \in 0 .. 3 /\ copy[t].refs \in Refs
    BY DEF IInv, PromiseType, Copies
  <1>1. CASE ReleaseKeeps(t)
    <2>1. pc[t] # "idle"
      BY <1>1 DEF ReleaseKeeps, Section
    <2>2. Released(t) \in Refs
      <3>1. copy[t].refs.count - 1 \in Int
        BY <1>0 DEF Refs
      <3>2. /\ [copy[t].refs EXCEPT !.group = FALSE, !.count = @ - 1] \in Refs
            /\ [copy[t].refs EXCEPT !.count = @ - 1] \in Refs
        BY <1>0, <3>1, Zenon DEF Refs
      <3> QED
        BY <1>0, <3>2 DEF Released
    <2>3. state' \in {state, copy[t].state} /\ refs' \in Refs
      BY <1>1, <2>2 DEF ReleaseKeeps, Store, IInv, PromiseType
    <2>4. /\ script' \in [Threads -> Seq(Calls)]
          /\ pc' \in [Threads -> {"idle", "copy", "poll", "sleep", "woken"}]
          /\ Calling'
      BY <1>1, <2>1, Returned DEF ReleaseKeeps, Return, Calling
    <2>5. UNCHANGED <<freed, polls, finished, drops, copied, copy, answer>>
      BY <1>1 DEF ReleaseKeeps, body
    <2> QED
      BY <1>0, <2>3, <2>4, <2>5 DEF IInv, PromiseType, Published
  <1>2. CASE ReleaseLast(t)
    <2>1. pc[t] # "idle"
      BY <1>2 DEF ReleaseLast, Section
    <2>2. UNCHANGED <<copied, copy, answer>>
      BY <1>2 DEF ReleaseLast
    <2>3. CASE pc' = [pc EXCEPT ![t] = "sleep"] /\ UNCHANGED <<memory, body, script>>
      BY <2>1, <2>2, <2>3 DEF IInv, PromiseType, Calling, Published, memory, body
    <2>4. ASSUME Return(t), UNCHANGED <<memory, body>> PROVE IInv'
      BY <2>1, <2>2, <2>4, Returned
      DEF IInv, PromiseType, Calling, Published, Return, memory, body
    <2>5. ASSUME Return(t), NEW s, FreeAll(s) PROVE IInv'
      <3>1. /\ script' \in [Threads -> Seq(Calls)]
            /\ pc' \in [Threads -> {"idle", "copy", "poll", "sleep", "woken"}]
            /\ Calling'
        BY <2>1, <2>5, Returned DEF Return, Calling
      <3>2. refs' \in Refs /\ freed' \in BOOLEAN
        <4>1. 0 \in Int
          OBVIOUS
        <4>2. refs' = [count |-> 0, group |-> FALSE, released |-> TRUE] /\ freed' = TRUE
          BY <2>5 DEF FreeAll
        <4> QED
          BY <4>1, <4>2, Zenon DEF Refs
      <3>3. drops' \in Nat /\ state' = 3 /\ UNCHANGED <<polls, finished>>
        BY <2>5 DEF FreeAll, ReleaseContext, IInv, PromiseType
      <3> QED
        BY <2>2, <3>1, <3>2, <3>3 DEF IInv, PromiseType, Published
    <2> QED
      BY <1>2, <2>3, <2>4, <2>5 DEF ReleaseLast
  <1> QED
    BY <1>1, <1>2

LEMMA Invariant == PromiseSpec => []IInv
  <1>1. IInv /\ [PromiseNext]_pvars => IInv'
    <2> SUFFICES ASSUME IInv, [PromiseNext]_pvars PROVE IInv'
      OBVIOUS
    <2>1. ASSUME NEW t \in Threads, Begin(t) \/ CallStep(t) \/ SpuriousPromiseWake(t) PROVE IInv'
      BY <2>1, CopyInv, StoreInv, WaitInv, ReleaseInv DEF CallStep
    <2>2. CASE UNCHANGED pvars
      BY <2>2 DEF pvars, IInv, PromiseType, Calling, Published
    <2> QED
      BY <2>1, <2>2 DEF PromiseNext
  <1> QED
    BY <1>1, InitInv, PTL DEF PromiseSpec

(* Every variable keeps its type, whatever the scripts are.                 *)
THEOREM TypeCorrect == PromiseSpec => []PromiseType
  <1>1. IInv => PromiseType
    BY DEF IInv
  <1> QED
    BY <1>1, Invariant, PTL

(* An await that answers with a value does so after a body has ended and     *)
(* written one: for any calls of the two threads, overlapping or not,        *)
(* although each works on a copy (asyncWait).                               *)
THEOREM ValueIsWritten == PromiseSpec => []ValueOnlyAfterBody
  <1>1. IInv => ValueOnlyAfterBody
    BY DEF IInv, PromiseType, Published, ValueOnlyAfterBody
  <1> QED
    BY <1>1, Invariant, PTL

-----------------------------------------------------------------------------
(* Calls that follow each other: the copy a section works on is the promise. *)

Serially ==
    serial =>
        /\ \A t, u \in Threads : pc[t] # "idle" /\ pc[u] # "idle" => t = u
        /\ \A t \in Threads : pc[t] = "copy" =>
               /\ "state" \in copied[t] => copy[t].state = state
               /\ "refs" \in copied[t] => copy[t].refs = refs

\* Cold, the context is there; it goes to a body or to the drop function.
ContextThere ==
    serial =>
        /\ state = 0 => polls = 0 /\ drops = 0
        /\ polls + drops <= 1

-----------------------------------------------------------------------------
(* The scripts of real programs.  A promise, or a task, is awaited any number *)
(* of times and then dropped; TaskGroup.spawn attaches it and retains a task, *)
(* its parameter is dropped, and closing the group gives up its reference.    *)

Awaited(u) ==
    /\ u \in Seq(Calls) /\ u # <<>>
    /\ u[Len(u)] = "destroy"
    /\ \A i \in 1 .. Len(u) - 1 : u[i] = "wait"

Programs ==
    \A s \in Scripts :
        \/ Awaited(s[1]) /\ s[2] = <<>>
        \/ /\ \E u : Awaited(u) /\ s[1] = <<"attach", "retain", "destroy">> \o u \o <<"group_release">>
           /\ s[2] \in Seq({"wait", "cancel"})

\* What is left of the script of a spawned task, after its first k calls.
Use(q, k) ==
    /\ Len(q) >= k + 2
    /\ \A i \in k + 1 .. Len(q) - 2 : q[i] = "wait"
    /\ q[Len(q) - 1] = "destroy"
    /\ q[Len(q)] = "group_release"
ToAttach(q) == Use(q, 3) /\ q[1] = "attach" /\ q[2] = "retain" /\ q[3] = "destroy"
ToRetain(q) == Use(q, 2) /\ q[1] = "retain" /\ q[2] = "destroy"
ToPass(q) == Use(q, 1) /\ q[1] = "destroy"
ToUse(q) == Use(q, 0)
ToClose(q) == q = <<"group_release">>
Joined(q) == ToRetain(q) \/ ToPass(q) \/ ToUse(q) \/ ToClose(q)

\* The references that the rest of the script gives up.
Owed(q) == IF ToPass(q) THEN 3 ELSE IF ToClose(q) THEN 1 ELSE 2
Counted(n, group) == [count |-> n, group |-> group, released |-> FALSE]

\* The body runs inside a wait.
Polling == \A t \in Threads : pc[t] = "poll" => Call(t) = "wait"

\* A promise of one thread is freed by its last call.
Alone ==
    /\ script[Worker] = <<>>
    /\ script[Owner] # <<>> => Awaited(script[Owner])
    /\ freed => script[Owner] = <<>>
    /\ pc[Owner] \in {"sleep", "woken"} => Call(Owner) \in {"wait", "destroy"}
    /\ serial => IF script[Owner] = <<>> THEN freed ELSE refs = Counted(1, FALSE)

\* A task is attached before anybody else has it ...
Attaching ==
    /\ ToAttach(script[Owner])
    /\ script[Worker] \in Seq({"wait", "cancel"})
    /\ pc[Worker] = "idle" /\ pc[Owner] \in {"idle", "copy"}
    /\ state = 0 /\ refs = Counted(1, FALSE) /\ ~freed
    /\ pc[Owner] = "copy" =>
           /\ "state" \in copied[Owner] => copy[Owner].state = 0
           /\ "refs" \in copied[Owner] => copy[Owner].refs = refs

\* ... and then kept by the group's reference, which no copy forgets, until
\* the worker has made its calls.
Attached(r) == r.group /\ ~r.released
KeptByGroup ==
    /\ Joined(script[Owner])
    /\ script[Worker] \in Seq({"wait", "cancel"})
    /\ Attached(refs) /\ ~freed
    /\ \A t \in Threads : pc[t] = "copy" /\ "refs" \in copied[t] => Attached(copy[t].refs)
    /\ pc[Owner] \in {"sleep", "woken"} => Call(Owner) \in {"wait", "group_release"}
    /\ ToClose(script[Owner]) /\ pc[Owner] # "idle" => script[Worker] = <<>>
    /\ serial => refs = Counted(Owed(script[Owner]), TRUE)

Closed ==
    /\ script[Owner] = <<>> /\ script[Worker] = <<>>
    /\ serial => freed

Kept == Alone \/ Attaching \/ KeptByGroup \/ Closed

\* A thread steps alone: the others keep their copies and their calls, and at
\* most wake up.
LEMMA StepShape ==
    ASSUME IInv, NEW t \in Threads, CallStep(t) \/ SpuriousPromiseWake(t)
    PROVE  /\ pc[t] # "idle"
           /\ \A u \in Threads : u # t =>
                 /\ copy'[u] = copy[u] /\ copied'[u] = copied[u] /\ script'[u] = script[u]
                 /\ pc'[u] = pc[u] \/ (pc[u] = "sleep" /\ pc'[u] = "woken")
           /\ pc'[t] = "copy" => CopyPart(t)
  <1> DEFINE idle == [pc EXCEPT ![t] = "idle"]
  <1>0. /\ copy \in [Threads -> Copies] /\ copied \in [Threads -> SUBSET {"state", "refs"}]
        /\ script \in [Threads -> Seq(Calls)]
        /\ pc \in [Threads -> {"idle", "copy", "poll", "sleep", "woken"}]
    BY DEF IInv, PromiseType
  <1>1. CASE CopyPart(t)
    <2>1. /\ pc[t] = "copy" /\ UNCHANGED <<pc, script>>
          /\ \A u \in Threads : u # t => copy'[u] = copy[u] /\ copied'[u] = copied[u]
      BY <1>0, <1>1 DEF CopyPart
    <2> QED
      BY <1>1, <2>1
  <1>2. ASSUME pc[t] # "idle", UNCHANGED <<copy, copied>>,
               script' = script \/ script' = [script EXCEPT ![t] = Tail(@)],
               \E place \in {"idle", "sleep", "poll", "woken"} : pc' = [pc EXCEPT ![t] = place]
        PROVE  /\ pc[t] # "idle"
               /\ \A u \in Threads : u # t =>
                     /\ copy'[u] = copy[u] /\ copied'[u] = copied[u] /\ script'[u] = script[u]
                     /\ pc'[u] = pc[u] \/ (pc[u] = "sleep" /\ pc'[u] = "woken")
               /\ pc'[t] # "copy"
    BY <1>0, <1>2
  <1>3. ASSUME pc[t] # "idle", UNCHANGED <<copy, copied>>,
               script' = [script EXCEPT ![t] = Tail(@)], pc' = Wake(idle)
        PROVE  /\ pc[t] # "idle"
               /\ \A u \in Threads : u # t =>
                     /\ copy'[u] = copy[u] /\ copied'[u] = copied[u] /\ script'[u] = script[u]
                     /\ pc'[u] = pc[u] \/ (pc[u] = "sleep" /\ pc'[u] = "woken")
               /\ pc'[t] # "copy"
    BY <1>0, <1>3 DEF Wake
  <1>4. ASSUME \/ AsyncAttachGroup(t) \/ AsyncRetain(t) \/ WaitReturns(t) \/ WaitSleeps(t)
               \/ WaitStarts(t) \/ WaitWakes(t) \/ ReleaseKeeps(t) \/ ReleaseLast(t) \/ SpuriousPromiseWake(t)
        PROVE  /\ pc[t] # "idle" /\ UNCHANGED <<copy, copied>>
               /\ script' = script \/ script' = [script EXCEPT ![t] = Tail(@)]
               /\ \E place \in {"idle", "sleep", "poll", "woken"} : pc' = [pc EXCEPT ![t] = place]
    <2>1. CASE \/ AsyncAttachGroup(t) \/ AsyncRetain(t) \/ WaitReturns(t) \/ WaitSleeps(t) \/ WaitStarts(t)
      BY <2>1 DEF AsyncAttachGroup, AsyncRetain, WaitReturns, WaitSleeps, WaitStarts, Section, Return, memory, body
    <2>2. CASE WaitWakes(t) \/ SpuriousPromiseWake(t)
      BY <2>2 DEF WaitWakes, SpuriousPromiseWake, Return, memory, body
    <2>3. CASE ReleaseKeeps(t) \/ ReleaseLast(t)
      BY <2>3 DEF ReleaseKeeps, ReleaseLast, Section, Return, memory, body
    <2> QED
      BY <1>4, <2>1, <2>2, <2>3
  <1>5. ASSUME AsyncCancelQueued(t) \/ WaitEnds(t)
        PROVE  /\ pc[t] # "idle" /\ UNCHANGED <<copy, copied>>
               /\ script' = [script EXCEPT ![t] = Tail(@)]
               /\ pc' = idle \/ pc' = Wake(idle)
    BY <1>5 DEF AsyncCancelQueued, WaitEnds, Section
  <1> HIDE DEF idle
  <1>6. CASE AsyncCancelQueued(t) \/ WaitEnds(t)
    <2>1. CASE pc' = Wake(idle)
      BY <1>3, <1>5, <1>6, <2>1
    <2>2. CASE pc' = idle
      BY <1>2, <1>5, <1>6, <2>2 DEF idle
    <2> QED
      BY <1>5, <1>6, <2>1, <2>2
  <1> QED
    BY <1>1, <1>2, <1>4, <1>6 DEF CallStep

\* Serial calls stay serial, and their copies current.
LEMMA SeriallyInv ==
    ASSUME IInv, Serially, [PromiseNext]_pvars
    PROVE  Serially'
  <1>0. /\ copy \in [Threads -> Copies] /\ copied \in [Threads -> SUBSET {"state", "refs"}]
        /\ pc \in [Threads -> {"idle", "copy", "poll", "sleep", "woken"}]
    BY DEF IInv, PromiseType
  <1>1. ASSUME NEW t \in Threads, Begin(t), serial' = serial PROVE Serially'
    <2>1. /\ pc' = [pc EXCEPT ![t] = "copy"] /\ copied' = [copied EXCEPT ![t] = {}]
          /\ serial => \A u \in Threads \ {t} : pc[u] = "idle"
      BY <1>1 DEF Begin, Enabled
    <2> QED
      BY <1>0, <1>1, <2>1 DEF Serially
  <1>2. ASSUME NEW t \in Threads, CallStep(t) \/ SpuriousPromiseWake(t), serial' = serial PROVE Serially'
    <2> SUFFICES ASSUME serial PROVE Serially'
      BY <1>2 DEF Serially
    <2>1. pc[t] # "idle" /\ \A u \in Threads : u # t => pc[u] = "idle" /\ pc'[u] = "idle"
      BY <1>2, StepShape DEF Serially
    <2>2. ASSUME pc'[t] = "copy"
          PROVE  /\ "state" \in copied'[t] => copy'[t].state = state'
                 /\ "refs" \in copied'[t] => copy'[t].refs = refs'
      <3>1. CopyPart(t)
        BY <1>2, <2>2, StepShape
      <3>2. /\ pc[t] = "copy" /\ UNCHANGED <<state, refs>>
            /\ \/ copy' = [copy EXCEPT ![t].state = state] /\ copied' = [copied EXCEPT ![t] = @ \cup {"state"}]
               \/ copy' = [copy EXCEPT ![t].refs = refs] /\ copied' = [copied EXCEPT ![t] = @ \cup {"refs"}]
        BY <3>1 DEF CopyPart, memory
      <3>3. copy[t] \in [state : 0 .. 3, refs : Refs]
        BY <1>0 DEF Copies
      <3>4. CASE copy' = [copy EXCEPT ![t].state = state] /\ copied' = [copied EXCEPT ![t] = @ \cup {"state"}]
        <4>1. copy'[t] = [copy[t] EXCEPT !.state = state] /\ copied'[t] = copied[t] \cup {"state"}
          BY <1>0, <3>4
        <4> QED
          BY <3>2, <3>3, <4>1 DEF Serially
      <3>5. CASE copy' = [copy EXCEPT ![t].refs = refs] /\ copied' = [copied EXCEPT ![t] = @ \cup {"refs"}]
        <4>1. copy'[t] = [copy[t] EXCEPT !.refs = refs] /\ copied'[t] = copied[t] \cup {"refs"}
          BY <1>0, <3>5
        <4> QED
          BY <3>2, <3>3, <4>1 DEF Serially
      <3> QED
        BY <3>2, <3>4, <3>5
    <2> QED
      BY <2>1, <2>2 DEF Serially
  <1>3. CASE UNCHANGED pvars
    BY <1>3 DEF pvars, Serially
  <1> QED
    BY <1>1, <1>2, <1>3 DEF PromiseNext

\* A body or the drop function gets the context out of a cold promise only.
LEMMA ContextInv ==
    ASSUME IInv, Serially, ContextThere, [PromiseNext]_pvars
    PROVE  ContextThere'
  <1>0. polls \in Nat /\ drops \in Nat
    BY DEF IInv, PromiseType
  <1>1. CASE UNCHANGED <<state, polls, drops, serial>>
    BY <1>1 DEF ContextThere
  <1>2. ASSUME NEW t \in Threads, CallStep(t), serial' = serial,
               ~UNCHANGED <<state, polls, drops>>
        PROVE  ContextThere'
    <2> SUFFICES ASSUME serial PROVE ContextThere'
      BY <1>2 DEF ContextThere
    <2>1. pc[t] = "copy" /\ copied[t] = {"state", "refs"} => copy[t].state = state
      BY DEF Serially
    <2>2. CASE AsyncAttachGroup(t) \/ AsyncRetain(t) \/ AsyncCancelQueued(t)
      <3>1. /\ pc[t] = "copy" /\ copied[t] = {"state", "refs"} /\ UNCHANGED <<polls, drops>>
            /\ state' \in {state, copy[t].state, 3}
        BY <2>2 DEF AsyncAttachGroup, AsyncRetain, AsyncCancelQueued, Section, Store, body
      <3> QED
        BY <1>2, <2>1, <3>1 DEF ContextThere
    <2>3. CASE WaitStarts(t)
      <3>1. /\ pc[t] = "copy" /\ copied[t] = {"state", "refs"} /\ copy[t].state = 0
            /\ state' = 1 /\ polls' = polls + 1 /\ drops' = drops
        BY <2>3 DEF WaitStarts, Section, Store
      <3> QED
        BY <1>0, <1>2, <2>1, <3>1 DEF ContextThere
    <2>4. CASE WaitEnds(t)
      BY <1>2, <2>4 DEF WaitEnds, ContextThere
    <2>5. CASE ReleaseKeeps(t)
      <3>1. /\ pc[t] = "copy" /\ copied[t] = {"state", "refs"} /\ UNCHANGED <<polls, drops>>
            /\ state' \in {state, copy[t].state}
        BY <2>5 DEF ReleaseKeeps, Section, Store, body
      <3> QED
        BY <1>2, <2>1, <3>1 DEF ContextThere
    <2>6. CASE ReleaseLast(t)
      <3>1. PICK s : FreeAll(s) /\ (s = state \/ (s = copy[t].state /\ pc[t] = "copy" /\ copied[t] = {"state", "refs"}))
        BY <1>2, <2>6 DEF ReleaseLast, Section, memory, body
      <3>2. s = state /\ state' = 3 /\ polls' = polls /\ drops' = IF s = 0 THEN drops + 1 ELSE drops
        BY <2>1, <3>1 DEF FreeAll, ReleaseContext
      <3> QED
        BY <1>0, <1>2, <3>2 DEF ContextThere
    <2>7. CASE CopyPart(t) \/ WaitReturns(t) \/ WaitSleeps(t) \/ WaitWakes(t)
      BY <1>2, <2>7 DEF CopyPart, WaitReturns, WaitSleeps, WaitWakes, memory, body
    <2> QED
      BY <1>2, <2>2, <2>3, <2>4, <2>5, <2>6, <2>7 DEF CallStep
  <1>3. ASSUME NEW t \in Threads, Begin(t) \/ SpuriousPromiseWake(t) PROVE UNCHANGED <<state, polls, drops>>
    BY <1>3 DEF Begin, SpuriousPromiseWake, memory, body
  <1> QED
    BY <1>1, <1>2, <1>3 DEF PromiseNext, pvars

\* What is left of a script once its first call has returned.
LEMMA AwaitedTail ==
    ASSUME NEW q, Awaited(q)
    PROVE  \/ Head(q) = "wait" /\ Awaited(Tail(q))
           \/ Head(q) = "destroy" /\ Tail(q) = <<>>
  <1>1. q \in Seq(Calls) /\ Len(q) \in Nat \ {0} /\ Head(q) = q[1]
    BY EmptySeq DEF Awaited
  <1>2. CASE Len(q) = 1
    <2>1. Head(q) = "destroy"
      BY <1>1, <1>2 DEF Awaited
    <2>2. Tail(q) \in Seq(Calls) /\ Len(Tail(q)) = 0
      BY <1>1, <1>2
    <2>3. Tail(q) = <<>>
      BY <2>2, EmptySeq
    <2> QED
      BY <2>1, <2>3
  <1>3. CASE Len(q) > 1
    <2>1. /\ Tail(q) \in Seq(Calls) /\ Len(Tail(q)) = Len(q) - 1 /\ Tail(q) # <<>>
          /\ \A i \in 1 .. Len(q) - 1 : Tail(q)[i] = q[i + 1]
      BY <1>1, <1>3
    <2>2. Len(q) - 1 \in 1 .. Len(q) - 1 /\ (Len(q) - 1) + 1 = Len(q)
      BY <1>1, <1>3
    <2>3. Tail(q)[Len(Tail(q))] = "destroy"
      BY <1>1, <1>3, <2>1, <2>2 DEF Awaited
    <2>4. \A i \in 1 .. Len(Tail(q)) - 1 : Tail(q)[i] = "wait"
      BY <1>1, <1>3, <2>1 DEF Awaited
    <2>5. Head(q) = "wait"
      BY <1>1, <1>3 DEF Awaited
    <2>6. Awaited(Tail(q))
      <3> DEFINE tail == Tail(q)
      <3>1. /\ tail \in Seq(Calls) /\ tail # <<>>
            /\ tail[Len(tail)] = "destroy" /\ \A i \in 1 .. Len(tail) - 1 : tail[i] = "wait"
        BY <2>1, <2>3, <2>4
      <3> HIDE DEF tail
      <3>2. Awaited(tail)
        BY <3>1 DEF Awaited
      <3> QED
        BY <3>2 DEF tail
    <2> QED
      BY <2>5, <2>6
  <1>4. Len(q) = 1 \/ Len(q) > 1
    <2>1. \A n \in Nat \ {0} : n = 1 \/ n > 1
      OBVIOUS
    <2> QED
      BY <1>1, <2>1
  <1> QED
    BY <1>2, <1>3, <1>4

LEMMA UseTail ==
    ASSUME NEW q \in Seq(Calls), NEW k \in Nat, Use(q, k), k > 0 \/ Len(q) > 2
    PROVE  /\ k > 0 => Use(Tail(q), k - 1)
           /\ k = 0 => Use(Tail(q), 0)
  <1>1. /\ Len(q) \in Nat /\ Len(q) >= 3
        /\ Tail(q) \in Seq(Calls) /\ Len(Tail(q)) = Len(q) - 1
        /\ \A i \in 1 .. Len(q) - 1 : Tail(q)[i] = q[i + 1]
    BY DEF Use
  <1>2. /\ Tail(q)[Len(Tail(q)) - 1] = q[Len(q) - 1]
        /\ Tail(q)[Len(Tail(q))] = q[Len(q)]
    BY <1>1
  <1>3. ASSUME NEW i \in Int, i >= 1, i <= Len(Tail(q)) - 2
        PROVE  Tail(q)[i] = q[i + 1] /\ i + 1 <= Len(q) - 2
    BY <1>1, <1>3
  <1> QED
    BY <1>1, <1>2, <1>3 DEF Use

\* A task is attached, retained, passed and used.
LEMMA JoinedTail ==
    ASSUME NEW q \in Seq(Calls)
    PROVE  /\ ToAttach(q) => q # <<>> /\ Head(q) = "attach" /\ ToRetain(Tail(q))
           /\ ToRetain(q) => q # <<>> /\ Head(q) = "retain" /\ ToPass(Tail(q))
           /\ ToPass(q) => q # <<>> /\ Head(q) = "destroy" /\ ToUse(Tail(q))
           /\ ToUse(q) => /\ q # <<>>
                          /\ \/ Head(q) = "wait" /\ ToUse(Tail(q))
                             \/ Head(q) = "destroy" /\ ToClose(Tail(q))
           /\ ToClose(q) => q # <<>> /\ Head(q) = "group_release" /\ Tail(q) = <<>>
  <1>1. ASSUME Len(q) > 0
        PROVE  /\ Head(q) = q[1] /\ Tail(q) \in Seq(Calls) /\ Len(Tail(q)) = Len(q) - 1
               /\ \A i \in 1 .. Len(q) - 1 : Tail(q)[i] = q[i + 1]
    BY <1>1
  <1>2. ASSUME ToAttach(q) PROVE q # <<>> /\ Head(q) = "attach" /\ ToRetain(Tail(q))
    <2>1. Len(q) >= 5 /\ Use(Tail(q), 2)
      BY <1>2, UseTail DEF ToAttach, Use
    <2> QED
      BY <1>1, <1>2, <2>1 DEF ToAttach, ToRetain
  <1>3. ASSUME ToRetain(q) PROVE q # <<>> /\ Head(q) = "retain" /\ ToPass(Tail(q))
    <2>1. Len(q) >= 4 /\ Use(Tail(q), 1)
      BY <1>3, UseTail DEF ToRetain, Use
    <2> QED
      BY <1>1, <1>3, <2>1 DEF ToRetain, ToPass
  <1>4. ASSUME ToPass(q) PROVE q # <<>> /\ Head(q) = "destroy" /\ ToUse(Tail(q))
    <2>1. Len(q) >= 3 /\ Use(Tail(q), 0)
      BY <1>4, UseTail DEF ToPass, Use
    <2> QED
      BY <1>1, <1>4, <2>1 DEF ToPass, ToUse
  <1>5. ASSUME ToUse(q)
        PROVE  /\ q # <<>>
               /\ \/ Head(q) = "wait" /\ ToUse(Tail(q))
                  \/ Head(q) = "destroy" /\ ToClose(Tail(q))
    <2>1. Len(q) \in Nat /\ Len(q) >= 2
      BY <1>5 DEF ToUse, Use
    <2>2. CASE Len(q) = 2
      <3>1. q[1] = "destroy" /\ q[2] = "group_release"
        BY <1>5, <2>2 DEF ToUse, Use
      <3>2. Len(Tail(q)) = 1 /\ Tail(q)[1] = "group_release"
        BY <1>1, <2>2, <3>1
      <3>3. <<"group_release">> \in Seq(Calls) /\ Len(<<"group_release">>) = 1
        BY DEF Calls
      <3>4. Tail(q) = <<"group_release">>
        <4> DEFINE tail == Tail(q)
                   last == <<"group_release">>
        <4>1. tail \in Seq(Calls) /\ Len(tail) = Len(last) /\ last \in Seq(Calls)
          BY <1>1, <2>1, <3>2, <3>3
        <4>2. \A i \in 1 .. Len(tail) : tail[i] = last[i]
          BY <3>2, <3>3
        <4> HIDE DEF tail, last
        <4>3. tail = last
          BY <4>1, <4>2, SeqEqual
        <4> QED
          BY <4>3 DEF tail, last
      <3> QED
        BY <1>1, <2>1, <3>1, <3>4 DEF ToClose
    <2>3. CASE Len(q) > 2
      <3>1. q[1] = "wait"
        BY <1>5, <2>3 DEF ToUse, Use
      <3>2. Use(Tail(q), 0)
        BY <1>5, <2>3, UseTail DEF ToUse
      <3>3. Head(q) = "wait" /\ q # <<>>
        BY <1>1, <2>1, <3>1
      <3>4. ToUse(Tail(q))
        BY <3>2 DEF ToUse
      <3> QED
        BY <3>3, <3>4
    <2>4. Len(q) = 2 \/ Len(q) > 2
      <3>1. \A n \in Nat : n >= 2 => n = 2 \/ n > 2
        OBVIOUS
      <3> QED
        BY <2>1, <3>1
    <2> QED
      BY <2>2, <2>3, <2>4
  <1>6. ASSUME ToClose(q) PROVE q # <<>> /\ Head(q) = "group_release" /\ Tail(q) = <<>>
    BY <1>6 DEF ToClose
  <1> QED
    BY <1>2, <1>3, <1>4, <1>5, <1>6

\* What is owed tells the stages apart.
LEMMA OwedIs ==
    ASSUME NEW q \in Seq(Calls)
    PROVE  /\ ToRetain(q) => Owed(q) = 2
           /\ ToPass(q) => Owed(q) = 3
           /\ ToUse(q) => Owed(q) = 2
           /\ ToClose(q) => Owed(q) = 1
  <1>1. ToRetain(q) => ~ToPass(q) /\ ~ToClose(q)
    BY DEF ToRetain, ToPass, ToClose
  <1>2. ToUse(q) => ~ToPass(q) /\ ~ToClose(q)
    <2>1. ToUse(q) /\ ToPass(q) => FALSE
      BY DEF ToUse, ToPass, Use
    <2> QED
      BY <2>1 DEF ToUse, ToClose, Use
  <1>3. ToClose(q) => ~ToPass(q)
    BY DEF ToClose, ToPass
  <1> QED
    BY <1>1, <1>2, <1>3 DEF Owed

\* The body of a promise runs inside the wait that started it.
LEMMA PollingInv ==
    ASSUME IInv, Polling, [PromiseNext]_pvars
    PROVE  Polling'
  <1>0. pc \in [Threads -> {"idle", "copy", "poll", "sleep", "woken"}] /\ script \in [Threads -> Seq(Calls)]
    BY DEF IInv, PromiseType
  <1>1. CASE UNCHANGED pvars
    BY <1>1 DEF pvars, Polling, Call
  <1>2. ASSUME NEW t \in Threads, Begin(t) PROVE Polling'
    <2>1. pc' = [pc EXCEPT ![t] = "copy"] /\ script' = script
      BY <1>2 DEF Begin
    <2> QED
      BY <1>0, <2>1 DEF Polling, Call
  <1>3. ASSUME NEW t \in Threads, CallStep(t) \/ SpuriousPromiseWake(t) PROVE Polling'
    <2>1. \A u \in Threads : u # t /\ pc'[u] = "poll" => pc[u] = "poll" /\ script'[u] = script[u]
      BY <1>3, StepShape
    <2>2. ASSUME pc'[t] = "poll" PROVE pc[t] = "copy" /\ script' = script /\ Call(t) = "wait"
      <3>1. CASE AsyncAttachGroup(t) \/ AsyncRetain(t) \/ WaitReturns(t) \/ ReleaseKeeps(t)
        <4>1. pc' = [pc EXCEPT ![t] = "idle"]
          BY <3>1 DEF AsyncAttachGroup, AsyncRetain, WaitReturns, ReleaseKeeps, Return
        <4> QED
          BY <1>0, <2>2, <4>1
      <3>2. CASE AsyncCancelQueued(t) \/ WaitEnds(t)
        <4>1. pc' = [pc EXCEPT ![t] = "idle"] \/ pc' = Wake([pc EXCEPT ![t] = "idle"])
          BY <3>2 DEF AsyncCancelQueued, WaitEnds
        <4>2. pc'[t] = "idle"
          BY <1>0, <4>1 DEF Wake
        <4> QED
          BY <2>2, <4>2
      <3>3. CASE WaitSleeps(t) \/ WaitWakes(t) \/ ReleaseLast(t) \/ SpuriousPromiseWake(t)
        <4>1. \E place \in {"idle", "sleep", "woken"} : pc' = [pc EXCEPT ![t] = place]
          BY <3>3 DEF WaitSleeps, WaitWakes, ReleaseLast, SpuriousPromiseWake, Return
        <4> QED
          BY <1>0, <2>2, <4>1
      <3>4. CASE WaitStarts(t)
        BY <3>4 DEF WaitStarts, Section
      <3>5. CASE CopyPart(t)
        BY <2>2, <3>5 DEF CopyPart
      <3> QED
        BY <1>3, <3>1, <3>2, <3>3, <3>4, <3>5 DEF CallStep
    <2> QED
      BY <2>1, <2>2 DEF Polling, Call
  <1> QED
    BY <1>1, <1>2, <1>3 DEF PromiseNext

\* What a step of a call does to the references: inside the call nothing, or
\* what the thread has copied is stored.
Full(t) == pc[t] = "copy" /\ copied[t] = {"state", "refs"}
Stored(t) == refs' = refs \/ (Full(t) /\ refs' = copy[t].refs)

Goes(t) ==
    /\ script' = script /\ freed' = freed
    /\ Stored(t)
    /\ pc'[t] \in {"sleep", "woken"} =>
          \/ pc[t] \in {"sleep", "woken"}
          \/ Call(t) = "wait"
          \/ Section(t, "destroy") /\ Released(t) # copy[t].refs /\ Released(t).count = 0
          \/ Section(t, "group_release")

Waited(t) == Call(t) \in {"wait", "cancel"} /\ freed' = freed /\ Stored(t)
AttachEnds(t) ==
    /\ Section(t, "attach") /\ freed' = freed
    /\ IF copy[t].state = 0 /\ ~copy[t].refs.group
       THEN refs' = [copy[t].refs EXCEPT !.count = @ + 1, !.group = TRUE]
       ELSE refs' = refs
RetainEnds(t) ==
    /\ Section(t, "retain") /\ freed' = freed
    /\ IF copy[t].refs.released \/ copy[t].refs.count = 0
       THEN refs' = refs
       ELSE refs' = [copy[t].refs EXCEPT !.count = @ + 1]
KeepEnds(t) ==
    /\ Section(t, "destroy") \/ Section(t, "group_release")
    /\ Released(t) = copy[t].refs \/ Released(t).count # 0
    /\ refs' = IF Released(t) = copy[t].refs THEN refs ELSE Released(t)
    /\ freed' = freed
LastEnds(t) ==
    /\ \/ /\ Section(t, "destroy") \/ Section(t, "group_release")
          /\ Released(t) # copy[t].refs /\ Released(t).count = 0
          /\ ~copy[t].refs.released => freed' = TRUE
       \/ /\ pc[t] = "woken" /\ Call(t) \in {"destroy", "group_release"}
          /\ ~refs.released => freed' = TRUE
    /\ freed' = TRUE \/ UNCHANGED <<refs, freed>>

Comes(t) ==
    /\ script' = [script EXCEPT ![t] = Tail(@)]
    /\ pc'[t] = "idle"
    /\ Waited(t) \/ AttachEnds(t) \/ RetainEnds(t) \/ KeepEnds(t) \/ LastEnds(t)

LEMMA Steps ==
    ASSUME IInv, Polling, NEW t \in Threads, CallStep(t) \/ SpuriousPromiseWake(t)
    PROVE  Goes(t) \/ Comes(t)
  <1>0. pc \in [Threads -> {"idle", "copy", "poll", "sleep", "woken"}] /\ script \in [Threads -> Seq(Calls)]
    BY DEF IInv, PromiseType
  <1>1. [pc EXCEPT ![t] = "idle"][t] = "idle" /\ Wake([pc EXCEPT ![t] = "idle"])[t] = "idle"
    BY <1>0 DEF Wake
  <1>2. CASE CopyPart(t)
    BY <1>2 DEF CopyPart, Goes, Stored, memory
  <1>3. CASE AsyncAttachGroup(t)
    BY <1>1, <1>3 DEF AsyncAttachGroup, Return, Store, Comes, AttachEnds
  <1>4. CASE AsyncRetain(t)
    BY <1>1, <1>4 DEF AsyncRetain, Return, Store, Comes, RetainEnds
  <1>5. CASE AsyncCancelQueued(t)
    BY <1>1, <1>5 DEF AsyncCancelQueued, Section, Store, Comes, Waited, Stored, Full
  <1>6. CASE WaitReturns(t)
    BY <1>1, <1>6 DEF WaitReturns, Section, Return, memory, Comes, Waited, Stored
  <1>7. CASE WaitSleeps(t) \/ WaitStarts(t)
    BY <1>7 DEF WaitSleeps, WaitStarts, Section, Store, memory, Goes, Stored, Full
  <1>8. CASE WaitEnds(t)
    BY <1>1, <1>8 DEF WaitEnds, Polling, Comes, Waited, Stored
  <1>9. CASE WaitWakes(t)
    BY <1>1, <1>9 DEF WaitWakes, Return, memory, Goes, Comes, Waited, Stored
  <1>10. CASE ReleaseKeeps(t)
    BY <1>1, <1>10 DEF ReleaseKeeps, Return, Store, Comes, KeepEnds
  <1>11. CASE ReleaseLast(t)
    <2>1. CASE pc' = [pc EXCEPT ![t] = "sleep"] /\ UNCHANGED <<memory, body, script>>
      BY <1>11, <2>1 DEF ReleaseLast, Section, memory, Goes, Stored
    <2>2. CASE Return(t)
      <3>1. script' = [script EXCEPT ![t] = Tail(@)] /\ pc'[t] = "idle"
        BY <1>1, <2>2 DEF Return
      <3>2. LastEnds(t) \/ pc' = [pc EXCEPT ![t] = "sleep"]
        BY <1>11 DEF ReleaseLast, Section, LastEnds, FreeAll, memory
      <3> QED
        BY <1>0, <3>1, <3>2 DEF Comes
    <2> QED
      BY <1>11, <2>1, <2>2 DEF ReleaseLast
  <1>12. CASE SpuriousPromiseWake(t)
    BY <1>0, <1>12 DEF SpuriousPromiseWake, Goes, Stored, memory
  <1> QED
    BY <1>2, <1>3, <1>4, <1>5, <1>6, <1>7, <1>8, <1>9, <1>10, <1>11, <1>12 DEF CallStep

\* The scripts of programs are at their beginning.
LEMMA SpawnedScript ==
    ASSUME NEW u, Awaited(u)
    PROVE  ToAttach(<<"attach", "retain", "destroy">> \o u \o <<"group_release">>)
  <1> DEFINE first == <<"attach", "retain", "destroy">>
             last == <<"group_release">>
             half == first \o u
             q == half \o last
  <1>1. u \in Seq(Calls) /\ Len(u) \in Nat \ {0}
    BY EmptySeq DEF Awaited
  <1>2. first \in Seq(Calls) /\ Len(first) = 3 /\ last \in Seq(Calls) /\ Len(last) = 1
    BY DEF Calls
  <1>3. first[1] = "attach" /\ first[2] = "retain" /\ first[3] = "destroy" /\ last[1] = "group_release"
    OBVIOUS
  <1> HIDE DEF first, last
  <1>4. /\ half \in Seq(Calls) /\ Len(half) = 3 + Len(u)
        /\ \A i \in 1 .. 3 + Len(u) : half[i] = IF i <= 3 THEN first[i] ELSE u[i - 3]
    <2>1. /\ half \in Seq(Calls) /\ Len(half) = Len(first) + Len(u)
          /\ \A i \in 1 .. Len(first) + Len(u) : half[i] = IF i <= Len(first) THEN first[i] ELSE u[i - Len(first)]
      BY <1>1, <1>2, ConcatProperties
    <2> HIDE DEF half
    <2> QED
      BY <1>2, <2>1
  <1> HIDE DEF half
  <1>5. /\ Len(q) = 4 + Len(u)
        /\ \A i \in 1 .. 4 + Len(u) : q[i] = IF i <= 3 + Len(u) THEN half[i] ELSE last[i - (3 + Len(u))]
    <2>1. /\ Len(q) = Len(half) + Len(last)
          /\ \A i \in 1 .. Len(half) + Len(last) : q[i] = IF i <= Len(half) THEN half[i] ELSE last[i - Len(half)]
      BY <1>2, <1>4, ConcatProperties
    <2>2. Len(half) = 3 + Len(u) /\ Len(half) + Len(last) = 4 + Len(u)
      BY <1>1, <1>2, <1>4
    <2> QED
      BY <2>1, <2>2
  <1> HIDE DEF q
  <1>6. q[1] = "attach" /\ q[2] = "retain" /\ q[3] = "destroy"
    BY <1>1, <1>3, <1>4, <1>5
  <1>7. ASSUME NEW i \in 4 .. 3 + Len(u) PROVE q[i] = u[i - 3]
    BY <1>1, <1>4, <1>5
  <1>8. q[Len(q)] = "group_release" /\ q[Len(q) - 1] = "destroy"
    <2>1. q[4 + Len(u)] = "group_release"
      BY <1>1, <1>3, <1>5
    <2>2. q[3 + Len(u)] = u[Len(u)]
      BY <1>1, <1>7
    <2> QED
      BY <1>1, <1>5, <2>1, <2>2 DEF Awaited
  <1>9. ASSUME NEW i \in 4 .. Len(q) - 2 PROVE q[i] = "wait"
    <2>1. i \in 4 .. 3 + Len(u) /\ i - 3 \in 1 .. Len(u) - 1
      BY <1>1, <1>5, <1>9
    <2> QED
      BY <1>7, <2>1 DEF Awaited
  <1>10. ToAttach(q)
    BY <1>1, <1>5, <1>6, <1>8, <1>9 DEF ToAttach, Use
  <1> QED
    BY <1>10 DEF q, half, first, last

LEMMA KeptAtFirst == ASSUME Programs, PromiseInit PROVE Kept
  <1>1. PICK s \in Scripts : script = [t \in Threads |-> IF t = Owner THEN s[1] ELSE s[2]]
    BY DEF PromiseInit
  <1>2. script[Owner] = s[1] /\ script[Worker] = s[2]
    BY <1>1, PromiseConstants DEF Threads
  <1>3. /\ refs = Counted(1, FALSE) /\ freed = FALSE /\ state = 0
        /\ pc[Owner] = "idle" /\ pc[Worker] = "idle"
    BY DEF PromiseInit, Counted, Threads
  <1>4. CASE Awaited(s[1]) /\ s[2] = <<>>
    BY <1>2, <1>3, <1>4 DEF Kept, Alone, Awaited
  <1>5. ASSUME NEW u, Awaited(u), s[1] = <<"attach", "retain", "destroy">> \o u \o <<"group_release">>,
               s[2] \in Seq({"wait", "cancel"})
        PROVE  Kept
    <2>1. ToAttach(script[Owner])
      BY <1>2, <1>5, SpawnedScript
    <2> QED
      BY <1>2, <1>3, <1>5, <2>1 DEF Kept, Attaching
  <1> QED
    BY <1>4, <1>5 DEF Programs

\* One thread: its last call has the last reference.
LEMMA AloneInv ==
    ASSUME IInv, Serially, Polling, Alone, [PromiseNext]_pvars
    PROVE  Alone'
  <1>0. /\ pc \in [Threads -> {"idle", "copy", "poll", "sleep", "woken"}] /\ script \in [Threads -> Seq(Calls)]
        /\ Owner \in Threads /\ Worker \in Threads /\ Owner # Worker
        /\ \A t \in Threads : t = Owner \/ t = Worker
    BY PromiseConstants DEF IInv, PromiseType, Threads
  <1>1. CASE UNCHANGED pvars
    BY <1>1 DEF pvars, Alone, Call
  <1>2. script[Worker] = <<>> /\ pc[Worker] = "idle"
    BY <1>0 DEF Alone, IInv, Calling
  <1>3. ASSUME NEW t \in Threads, Begin(t), serial' = serial PROVE Alone'
    <2>1. t = Owner
      BY <1>0, <1>2, <1>3 DEF Begin, Enabled
    <2>2. pc' = [pc EXCEPT ![Owner] = "copy"] /\ UNCHANGED <<script, refs, freed>>
      BY <1>3, <2>1 DEF Begin, memory
    <2> QED
      BY <1>0, <1>3, <2>2 DEF Alone, Call
  <1>4. ASSUME NEW t \in Threads, CallStep(t) \/ SpuriousPromiseWake(t), serial' = serial PROVE Alone'
    <2>1. t = Owner
      BY <1>0, <1>2, <1>4, StepShape
    <2>2. pc[Owner] # "idle" /\ script'[Worker] = <<>>
      BY <1>0, <1>2, <1>4, <2>1, StepShape
    <2>3. script[Owner] # <<>>
      BY <1>0, <2>2 DEF IInv, Calling
    <2>4. \/ Call(Owner) = "wait" /\ Awaited(Tail(script[Owner]))
          \/ Call(Owner) = "destroy" /\ Tail(script[Owner]) = <<>>
      BY <2>3, AwaitedTail DEF Alone, Call
    <2>5. ~freed /\ Awaited(script[Owner])
      BY <2>3 DEF Alone
    <2>6. serial => /\ refs = Counted(1, FALSE)
                    /\ Full(Owner) => copy[Owner].refs = refs
      BY <1>0, <2>3 DEF Alone, Serially, Full
    <2>7. CASE Goes(Owner)
      <3>1. pc'[Owner] \in {"sleep", "woken"} => Call(Owner) \in {"wait", "destroy"}
        BY <2>4, <2>7 DEF Goes, Section, Alone
      <3>2. script' = script /\ freed' = freed /\ (serial => refs' = refs)
        BY <2>6, <2>7 DEF Goes, Stored
      <3> QED
        BY <1>2, <1>4, <2>3, <2>5, <2>6, <3>1, <3>2 DEF Alone, Call
    <2>8. CASE Comes(Owner)
      <3>1. script'[Owner] = Tail(script[Owner]) /\ pc'[Owner] = "idle"
        BY <1>0, <2>8 DEF Comes
      <3>2. CASE Call(Owner) = "wait"
        <4>1. Waited(Owner)
          BY <2>8, <3>2 DEF Comes, AttachEnds, RetainEnds, KeepEnds, LastEnds, Section
        <4>2. freed' = freed /\ (serial => refs' = refs)
          BY <2>6, <4>1 DEF Waited, Stored
        <4>3. Awaited(script'[Owner]) /\ script'[Owner] # <<>>
          BY <2>4, <3>1, <3>2 DEF Awaited
        <4> QED
          BY <1>4, <2>2, <2>5, <2>6, <3>1, <4>2, <4>3 DEF Alone
      <3>3. CASE Call(Owner) = "destroy"
        <4>1. script'[Owner] = <<>>
          BY <2>4, <3>1, <3>3
        <4>2. ASSUME serial PROVE freed' = TRUE
          <5>1. KeepEnds(Owner) \/ LastEnds(Owner)
            BY <2>8, <3>3 DEF Comes, Waited, AttachEnds, RetainEnds, Section
          <5>2. ASSUME Section(Owner, "destroy") \/ Section(Owner, "group_release")
                PROVE  /\ Released(Owner) # copy[Owner].refs /\ Released(Owner).count = 0
                       /\ ~copy[Owner].refs.released
            <6>1. copy[Owner].refs = Counted(1, FALSE)
              BY <2>6, <4>2, <5>2 DEF Section, Full
            <6>2. Released(Owner) = [Counted(1, FALSE) EXCEPT !.count = @ - 1]
              BY <3>3, <6>1 DEF Released, Counted
            <6> QED
              BY <6>1, <6>2 DEF Counted
          <5>3. LastEnds(Owner)
            BY <5>1, <5>2 DEF KeepEnds
          <5>4. ~refs.released
            BY <2>6, <4>2 DEF Counted
          <5> QED
            BY <5>2, <5>3, <5>4 DEF LastEnds
        <4> QED
          BY <1>4, <2>2, <3>1, <4>1, <4>2 DEF Alone
      <3> QED
        BY <2>4, <3>2, <3>3
    <2> QED
      BY <1>4, <2>1, <2>7, <2>8, Steps
  <1> QED
    BY <1>1, <1>3, <1>4 DEF PromiseNext

\* asyncAttachGroup: the task is the group's from here on.
LEMMA AttachingInv ==
    ASSUME IInv, Serially, Polling, Attaching, [PromiseNext]_pvars
    PROVE  Attaching' \/ KeptByGroup'
  <1>0. /\ pc \in [Threads -> {"idle", "copy", "poll", "sleep", "woken"}] /\ script \in [Threads -> Seq(Calls)]
        /\ copied \in [Threads -> SUBSET {"state", "refs"}] /\ copy \in [Threads -> Copies]
        /\ Owner \in Threads /\ Worker \in Threads /\ Owner # Worker
        /\ \A t \in Threads : t = Owner \/ t = Worker
    BY PromiseConstants DEF IInv, PromiseType, Threads
  <1>1. CASE UNCHANGED pvars
    BY <1>1 DEF pvars, Attaching
  <1>2. /\ pc[Worker] = "idle" /\ Call(Owner) = "attach" /\ ToRetain(Tail(script[Owner]))
        /\ 1 \in 1 .. Len(script[Owner]) /\ script[Owner][1] = "attach"
    <2>1. Len(script[Owner]) >= 5 /\ script[Owner][1] = "attach" /\ Len(script[Owner]) \in Nat
      BY <1>0 DEF Attaching, ToAttach, Use
    <2> QED
      BY <1>0, <2>1, JoinedTail DEF Attaching, Call
  <1>3. ASSUME NEW t \in Threads, Begin(t), serial' = serial PROVE Attaching'
    <2>1. t = Owner
      BY <1>0, <1>2, <1>3 DEF Begin, Enabled
    <2>2. /\ pc' = [pc EXCEPT ![Owner] = "copy"] /\ copied' = [copied EXCEPT ![Owner] = {}]
          /\ UNCHANGED <<script, refs, freed, state>>
      BY <1>3, <2>1 DEF Begin, memory
    <2>3. pc'[Owner] = "copy" /\ pc'[Worker] = "idle" /\ copied'[Owner] = {}
      BY <1>0, <1>2, <2>2
    <2> QED
      BY <2>2, <2>3 DEF Attaching
  <1>4. ASSUME NEW t \in Threads, CallStep(t) \/ SpuriousPromiseWake(t), serial' = serial
        PROVE  Attaching' \/ KeptByGroup'
    <2>1. t = Owner /\ pc[Owner] = "copy"
      BY <1>0, <1>2, <1>4, StepShape DEF Attaching
    <2>2. CASE CopyPart(Owner)
      <3>1. UNCHANGED <<pc, script, refs, freed, state>>
        BY <2>2 DEF CopyPart, memory
      <3>2. copy[Owner] \in [state : 0 .. 3, refs : Refs]
        BY <1>0 DEF Copies
      <3>3. CASE copy' = [copy EXCEPT ![Owner].state = state] /\ copied' = [copied EXCEPT ![Owner] = @ \cup {"state"}]
        <4>1. copy'[Owner] = [copy[Owner] EXCEPT !.state = state] /\ copied'[Owner] = copied[Owner] \cup {"state"}
          BY <1>0, <3>3
        <4> QED
          BY <2>1, <3>1, <3>2, <4>1 DEF Attaching
      <3>4. CASE copy' = [copy EXCEPT ![Owner].refs = refs] /\ copied' = [copied EXCEPT ![Owner] = @ \cup {"refs"}]
        <4>1. copy'[Owner] = [copy[Owner] EXCEPT !.refs = refs] /\ copied'[Owner] = copied[Owner] \cup {"refs"}
          BY <1>0, <3>4
        <4> QED
          BY <2>1, <3>1, <3>2, <4>1 DEF Attaching
      <3> QED
        BY <2>2, <3>3, <3>4 DEF CopyPart
    <2>3. CASE ~CopyPart(Owner)
      <3>1. AsyncAttachGroup(Owner)
        BY <1>2, <1>4, <2>1, <2>3
        DEF CallStep, AsyncRetain, AsyncCancelQueued, WaitReturns, WaitSleeps, WaitStarts, WaitEnds, WaitWakes,
            ReleaseKeeps, ReleaseLast, SpuriousPromiseWake, Section
      <3>2. /\ copied[Owner] = {"state", "refs"} /\ freed' = freed /\ UNCHANGED <<copy, copied>>
            /\ pc' = [pc EXCEPT ![Owner] = "idle"] /\ script' = [script EXCEPT ![Owner] = Tail(@)]
        BY <3>1 DEF AsyncAttachGroup, Section, Return
      <3>3. copy[Owner].state = 0 /\ copy[Owner].refs = Counted(1, FALSE)
        BY <2>1, <3>2 DEF Attaching
      <3>4. refs' = Counted(2, TRUE)
        <4>1. refs' = [copy[Owner].refs EXCEPT !.count = @ + 1, !.group = TRUE]
          BY <3>1, <3>3 DEF AsyncAttachGroup, Store, Counted
        <4>2. copy[Owner].refs.count + 1 = 2
          BY <3>3 DEF Counted
        <4>3. refs' = [Counted(1, FALSE) EXCEPT !.count = 2, !.group = TRUE]
          BY <3>3, <4>1, <4>2
        <4> QED
          BY <4>3, Zenon DEF Counted
      <3>5. ToRetain(script'[Owner]) /\ script'[Worker] = script[Worker] /\ script'[Owner] \in Seq(Calls)
        <4>1. Tail(script[Owner]) \in Seq(Calls)
          BY <1>0, JoinedTail DEF Attaching
        <4> QED
          BY <1>0, <1>2, <3>2, <4>1
      <3>6. ~ToClose(script'[Owner]) /\ Owed(script'[Owner]) = 2
        BY <3>5, OwedIs
      <3>7. pc'[Owner] = "idle" /\ pc'[Worker] = "idle"
        BY <1>0, <1>2, <3>2
      <3> QED
        BY <1>0, <3>2, <3>4, <3>5, <3>6, <3>7 DEF Attaching, KeptByGroup, Joined, Attached, Counted
    <2> QED
      BY <2>2, <2>3
  <1> QED
    BY <1>1, <1>3, <1>4 DEF PromiseNext

\* A copy that has the group's reference does not give up the last one, and
\* what it stores has it too, unless the call is the group's release.
LEMMA GroupKeeps ==
    ASSUME NEW r \in Refs, Attached(r)
    PROVE  /\ [r EXCEPT !.count = @ + 1] \in Refs /\ Attached([r EXCEPT !.count = @ + 1])
           /\ Attached([r EXCEPT !.count = @ - 1])
           /\ ~(r.count <= 1) => [r EXCEPT !.count = @ - 1].count # 0
           /\ [r EXCEPT !.count = @ - 1].count = r.count - 1
  <1> DEFINE up == [r EXCEPT !.count = @ + 1]
             down == [r EXCEPT !.count = @ - 1]
  <1>1. r.count \in Int
    BY DEF Refs
  <1>2. up \in Refs /\ down \in Refs /\ up.count = r.count + 1 /\ down.count = r.count - 1
    BY DEF Refs
  <1>3. /\ up.group = r.group /\ up.released = r.released
        /\ down.group = r.group /\ down.released = r.released
    BY DEF Refs
  <1> HIDE DEF up, down
  <1>4. Attached(up) /\ Attached(down)
    BY <1>3 DEF Attached
  <1>5. ~(r.count <= 1) => down.count # 0
    BY <1>1, <1>2
  <1> QED
    BY <1>2, <1>4, <1>5 DEF up, down

\* The references after a call, if nothing came in between.
LEMMA CountedChange ==
    ASSUME NEW n \in Int
    PROVE  /\ [Counted(n, TRUE) EXCEPT !.count = @ + 1] = Counted(n + 1, TRUE)
           /\ [Counted(n, TRUE) EXCEPT !.count = @ - 1] = Counted(n - 1, TRUE)
           /\ Counted(n, TRUE).count = n /\ Counted(n, TRUE).group /\ ~Counted(n, TRUE).released
  <1> DEFINE r == Counted(n, TRUE)
  <1>1. r.count = n /\ r.group /\ ~r.released
    BY Zenon DEF Counted
  <1>2. [r EXCEPT !.count = @ + 1] = [r EXCEPT !.count = n + 1] /\ [r EXCEPT !.count = @ - 1] = [r EXCEPT !.count = n - 1]
    BY <1>1
  <1>3. ASSUME NEW m PROVE [Counted(n, TRUE) EXCEPT !.count = m] = Counted(m, TRUE)
    <2>1. ASSUME NEW g, NEW d
          PROVE  [[count |-> n, group |-> g, released |-> d] EXCEPT !.count = m]
                     = [count |-> m, group |-> g, released |-> d]
      OBVIOUS
    <2> QED
      BY <2>1, Zenon DEF Counted
  <1> QED
    BY <1>1, <1>2, <1>3

\* The thread that steps stores references that belong to the group; its copy has them.
LEMMA CopiesKeep ==
    ASSUME IInv, KeptByGroup, NEW t \in Threads, CallStep(t) \/ SpuriousPromiseWake(t)
    PROVE  \A u \in Threads : pc'[u] = "copy" /\ "refs" \in copied'[u] => Attached(copy'[u].refs)
  <1>0. copied \in [Threads -> SUBSET {"state", "refs"}] /\ copy \in [Threads -> Copies]
    BY DEF IInv, PromiseType
  <1>1. ASSUME NEW u \in Threads, u # t, pc'[u] = "copy" /\ "refs" \in copied'[u]
        PROVE  Attached(copy'[u].refs)
    <2>1. copy'[u] = copy[u] /\ copied'[u] = copied[u] /\ pc[u] = "copy"
      BY <1>1, StepShape
    <2> QED
      BY <1>1, <2>1 DEF KeptByGroup
  <1>2. ASSUME pc'[t] = "copy", "refs" \in copied'[t] PROVE Attached(copy'[t].refs)
    <2>1. CopyPart(t) /\ pc[t] = "copy"
      <3>1. CopyPart(t)
        BY <1>2, StepShape
      <3> QED
        BY <3>1 DEF CopyPart
    <2>2. copy[t] \in [state : 0 .. 3, refs : Refs]
      BY <1>0 DEF Copies
    <2>3. CASE copy' = [copy EXCEPT ![t].state = state] /\ copied' = [copied EXCEPT ![t] = @ \cup {"state"}]
      <3>1. copy'[t] = [copy[t] EXCEPT !.state = state] /\ copied'[t] = copied[t] \cup {"state"}
        BY <1>0, <2>3
      <3>2. copy'[t].refs = copy[t].refs /\ "refs" \in copied[t]
        BY <1>2, <2>2, <3>1
      <3> QED
        BY <2>1, <3>2 DEF KeptByGroup
    <2>4. CASE copy' = [copy EXCEPT ![t].refs = refs] /\ copied' = [copied EXCEPT ![t] = @ \cup {"refs"}]
      <3>1. copy'[t].refs = refs
        BY <1>0, <2>2, <2>4
      <3> QED
        BY <3>1 DEF KeptByGroup
    <2> QED
      BY <2>1, <2>3, <2>4 DEF CopyPart
  <1> QED
    BY <1>1, <1>2

\* A worker waits or cancels: the group's reference stays.
LEMMA WorkerKeeps ==
    ASSUME IInv, Serially, Polling, KeptByGroup, serial' = serial,
           CallStep(Worker) \/ SpuriousPromiseWake(Worker)
    PROVE  KeptByGroup'
  <1>0. /\ pc \in [Threads -> {"idle", "copy", "poll", "sleep", "woken"}] /\ script \in [Threads -> Seq(Calls)]
        /\ Owner \in Threads /\ Worker \in Threads /\ Owner # Worker
    BY PromiseConstants DEF IInv, PromiseType, Threads
  <1>1. /\ pc[Worker] # "idle" /\ script'[Owner] = script[Owner]
        /\ pc'[Owner] = pc[Owner] \/ (pc[Owner] = "sleep" /\ pc'[Owner] = "woken")
    BY <1>0, StepShape
  <1>2. script[Worker] # <<>> /\ script[Worker] \in Seq({"wait", "cancel"})
    BY <1>0, <1>1 DEF IInv, Calling, KeptByGroup
  <1>3. Call(Worker) \in {"wait", "cancel"} /\ Tail(script[Worker]) \in Seq({"wait", "cancel"})
    BY <1>2, HeadTailProperties DEF Call
  <1>4. freed' = freed /\ Stored(Worker) /\ script'[Worker] \in Seq({"wait", "cancel"})
    <2>1. CASE Goes(Worker)
      BY <1>2, <2>1 DEF Goes
    <2>2. CASE Comes(Worker)
      <3>1. script'[Worker] = Tail(script[Worker])
        BY <1>0, <2>2 DEF Comes
      <3>2. Waited(Worker)
        BY <1>3, <2>2 DEF Comes, AttachEnds, RetainEnds, KeepEnds, LastEnds, Section
      <3> QED
        BY <1>3, <3>1, <3>2 DEF Waited
    <2> QED
      BY <1>0, <2>1, <2>2, Steps
  <1>5. Full(Worker) => Attached(copy[Worker].refs) /\ (serial => copy[Worker].refs = refs)
    BY <1>0 DEF KeptByGroup, Full, Serially
  <1>6. Attached(refs') /\ (serial => refs' = refs)
    BY <1>4, <1>5 DEF Stored, KeptByGroup
  <1>7. \A u \in Threads : pc'[u] = "copy" /\ "refs" \in copied'[u] => Attached(copy'[u].refs)
    BY <1>0, CopiesKeep
  <1>8. ~(ToClose(script[Owner]) /\ pc'[Owner] # "idle")
    BY <1>1, <1>2 DEF KeptByGroup
  <1>9. pc'[Owner] \in {"sleep", "woken"} => Head(script[Owner]) \in {"wait", "group_release"}
    BY <1>1 DEF KeptByGroup, Call
  <1>10. ~freed' /\ Joined(script'[Owner])
    BY <1>1, <1>4 DEF KeptByGroup
  <1>11. serial' => refs' = Counted(Owed(script'[Owner]), TRUE)
    BY <1>1, <1>6 DEF KeptByGroup
  <1> QED
    BY <1>1, <1>4, <1>6, <1>7, <1>8, <1>9, <1>10, <1>11 DEF KeptByGroup, Call

\* The owner gives its references up, never the group's before the worker has ended.
LEMMA OwnerKeeps ==
    ASSUME IInv, Serially, Polling, KeptByGroup, serial' = serial,
           CallStep(Owner) \/ SpuriousPromiseWake(Owner)
    PROVE  KeptByGroup' \/ Closed'
  <1> DEFINE c == copy[Owner].refs
             q == script[Owner]
  <1>0. /\ pc \in [Threads -> {"idle", "copy", "poll", "sleep", "woken"}] /\ script \in [Threads -> Seq(Calls)]
        /\ copy \in [Threads -> Copies]
        /\ Owner \in Threads /\ Worker \in Threads /\ Owner # Worker
    BY PromiseConstants DEF IInv, PromiseType, Threads
  <1>1. pc[Owner] # "idle" /\ script'[Worker] = script[Worker]
    BY <1>0, StepShape
  <1>2. q # <<>> /\ q \in Seq(Calls) /\ c \in Refs /\ Call(Owner) = Head(q)
    BY <1>0, <1>1 DEF IInv, Calling, Copies, Call
  <1>3. Full(Owner) => Attached(c) /\ (serial => c = refs)
    BY <1>0 DEF KeptByGroup, Full, Serially
  <1>4. \A u \in Threads : pc'[u] = "copy" /\ "refs" \in copied'[u] => Attached(copy'[u].refs)
    BY <1>0, CopiesKeep
  <1>5. ASSUME Section(Owner, "destroy")
        PROVE  /\ Full(Owner) /\ (Released(Owner) = c \/ Released(Owner).count # 0)
               /\ Released(Owner) = c \/ Released(Owner) = [c EXCEPT !.count = @ - 1]
               /\ Attached(Released(Owner))
    <2>1. Full(Owner) /\ Call(Owner) = "destroy" /\ Attached(c) /\ c.group
      BY <1>3, <1>5 DEF Section, Full, Attached
    <2>2. Released(Owner) = IF c.count <= 1 THEN c ELSE [c EXCEPT !.count = @ - 1]
      BY <2>1 DEF Released
    <2>3. CASE c.count <= 1
      BY <2>1, <2>2, <2>3
    <2>4. CASE ~(c.count <= 1)
      <3>1. Released(Owner) = [c EXCEPT !.count = @ - 1]
        BY <2>2, <2>4
      <3>2. Attached([c EXCEPT !.count = @ - 1]) /\ [c EXCEPT !.count = @ - 1].count # 0
        BY <1>2, <2>1, <2>4, GroupKeeps
      <3> QED
        BY <2>1, <3>1, <3>2
    <2> QED
      BY <2>3, <2>4
  <1>6. CASE Goes(Owner)
    <2>1. Attached(refs') /\ (serial => refs' = refs) /\ script'[Owner] = q /\ ~freed'
      BY <1>3, <1>6 DEF Goes, Stored, KeptByGroup
    <2>2. pc'[Owner] \in {"sleep", "woken"} => Call(Owner) \in {"wait", "group_release"}
      BY <1>5, <1>6 DEF Goes, Section, KeptByGroup
    <2> QED
      BY <1>1, <1>4, <2>1, <2>2 DEF KeptByGroup, Call
  <1>7. CASE Comes(Owner)
    <2>1. script'[Owner] = Tail(q) /\ pc'[Owner] = "idle" /\ Tail(q) \in Seq(Calls)
      BY <1>0, <1>2, <1>7, HeadTailProperties DEF Comes
    <2>2. ASSUME Joined(Tail(q)), Attached(refs'), freed' = freed,
                 serial => refs' = Counted(Owed(Tail(q)), TRUE)
          PROVE  KeptByGroup'
      BY <1>1, <1>4, <2>1, <2>2 DEF KeptByGroup
    <2>3. serial => refs = Counted(Owed(q), TRUE)
      BY DEF KeptByGroup
    <2>4. CASE ToRetain(q)
      <3>1. Head(q) = "retain" /\ ToPass(Tail(q)) /\ Owed(q) = 2 /\ Owed(Tail(q)) = 3
        BY <1>2, <2>1, <2>4, JoinedTail, OwedIs
      <3>2. RetainEnds(Owner)
        BY <1>2, <1>7, <3>1 DEF Comes, Waited, AttachEnds, KeepEnds, LastEnds, Section
      <3>3. Full(Owner) /\ ~c.released /\ freed' = freed
        BY <1>3, <3>2 DEF RetainEnds, Section, Full, Attached
      <3>4. refs' = refs \/ refs' = [c EXCEPT !.count = @ + 1]
        BY <3>2 DEF RetainEnds
      <3>5. Attached(refs')
        BY <1>2, <1>3, <3>3, <3>4, GroupKeeps DEF KeptByGroup
      <3>6. ASSUME serial PROVE refs' = Counted(3, TRUE)
        <4>1. c = Counted(2, TRUE)
          BY <1>3, <2>3, <3>1, <3>3, <3>6
        <4>2. c.count = 2 /\ [c EXCEPT !.count = @ + 1] = Counted(3, TRUE)
          <5>1. 2 \in Int /\ 2 + 1 = 3
            OBVIOUS
          <5>2. /\ Counted(2, TRUE).count = 2
                /\ [Counted(2, TRUE) EXCEPT !.count = @ + 1] = Counted(2 + 1, TRUE)
            BY <5>1, CountedChange
          <5> QED
            BY <4>1, <5>1, <5>2
        <4>3. ~(c.released \/ c.count = 0)
          BY <3>3, <4>2
        <4> QED
          BY <3>2, <4>2, <4>3 DEF RetainEnds
      <3> QED
        BY <2>2, <3>1, <3>3, <3>5, <3>6 DEF Joined
    <2>5. ASSUME ToPass(q) \/ ToUse(q), Head(q) = "destroy", Joined(Tail(q)),
                 Owed(q) > 1, Owed(q) \in Int, Owed(Tail(q)) = Owed(q) - 1
          PROVE  KeptByGroup'
      <3>1. KeepEnds(Owner) \/ LastEnds(Owner)
        BY <1>2, <1>7, <2>5 DEF Comes, Waited, AttachEnds, RetainEnds, Section
      <3>2. pc[Owner] # "woken" /\ ~Section(Owner, "group_release")
        BY <1>2, <2>5 DEF KeptByGroup, Section
      <3>3. KeepEnds(Owner) /\ Section(Owner, "destroy")
        BY <1>5, <3>1, <3>2 DEF KeepEnds, LastEnds
      <3>4. refs' = (IF Released(Owner) = c THEN refs ELSE Released(Owner)) /\ freed' = freed
        BY <3>3 DEF KeepEnds
      <3>5. Attached(refs')
        BY <1>5, <3>3, <3>4 DEF KeptByGroup
      <3>6. ASSUME serial PROVE refs' = Counted(Owed(q) - 1, TRUE)
        <4> DEFINE n == Owed(q)
        <4>1. c = Counted(n, TRUE) /\ Call(Owner) = "destroy"
          BY <1>2, <1>3, <1>5, <2>3, <2>5, <3>3, <3>6
        <4>2. n \in Int /\ n > 1
          BY <2>5
        <4> HIDE DEF n
        <4>3. /\ [c EXCEPT !.count = @ - 1] = Counted(n - 1, TRUE)
              /\ c.count = n /\ c.group /\ Counted(n - 1, TRUE).count = n - 1
          <5>1. n - 1 \in Int
            BY <4>2
          <5> QED
            BY <4>1, <4>2, <5>1, CountedChange
        <4>4. Released(Owner) = Counted(n - 1, TRUE)
          <5>1. ~(c.count <= 1)
            BY <4>2, <4>3
          <5> QED
            BY <4>1, <4>3, <5>1 DEF Released
        <4>5. Released(Owner) # c
          <5>1. n - 1 # n
            BY <4>2
          <5> QED
            BY <4>3, <4>4, <5>1
        <4>6. refs' = Counted(n - 1, TRUE)
          BY <3>4, <4>4, <4>5
        <4> QED
          BY <4>6 DEF n
      <3> QED
        BY <2>2, <2>5, <3>4, <3>5, <3>6
    <2>6. CASE ToPass(q)
      <3>1. Head(q) = "destroy" /\ ToUse(Tail(q)) /\ Owed(q) = 3 /\ Owed(Tail(q)) = 2
        BY <1>2, <2>1, <2>6, JoinedTail, OwedIs
      <3> QED
        BY <2>5, <2>6, <3>1 DEF Joined
    <2>7. CASE ToUse(q) /\ Head(q) = "destroy"
      <3>1. ToClose(Tail(q)) \/ Head(q) = "wait"
        BY <1>2, <2>7, JoinedTail
      <3>2. ToClose(Tail(q)) /\ Owed(q) = 2 /\ Owed(Tail(q)) = 1
        BY <1>2, <2>1, <2>7, <3>1, OwedIs
      <3> QED
        BY <2>5, <2>7, <3>2 DEF Joined
    <2>8. CASE ToUse(q) /\ Head(q) # "destroy"
      <3>1. Head(q) = "wait" /\ ToUse(Tail(q))
        BY <1>2, <2>8, JoinedTail
      <3>2. Owed(q) = 2 /\ Owed(Tail(q)) = 2
        BY <2>1, <1>2, <2>8, <3>1, OwedIs
      <3>3. Waited(Owner)
        BY <1>2, <1>7, <3>1 DEF Comes, AttachEnds, RetainEnds, KeepEnds, LastEnds, Section
      <3>4. freed' = freed /\ Attached(refs') /\ (serial => refs' = refs)
        BY <1>3, <3>3 DEF Waited, Stored, KeptByGroup
      <3> QED
        BY <2>2, <2>3, <3>1, <3>2, <3>4 DEF Joined
    <2>9. CASE ToClose(q)
      <3>1. Head(q) = "group_release" /\ Tail(q) = <<>> /\ Owed(q) = 1
        BY <1>2, <2>9, JoinedTail, OwedIs
      <3>2. script'[Owner] = <<>> /\ script'[Worker] = <<>>
        BY <1>1, <2>1, <2>9, <3>1 DEF KeptByGroup
      <3>3. ASSUME serial PROVE freed' = TRUE
        <4>1. KeepEnds(Owner) \/ LastEnds(Owner)
          BY <1>2, <1>7, <3>1 DEF Comes, Waited, AttachEnds, RetainEnds, Section
        <4>2. ASSUME Section(Owner, "destroy") \/ Section(Owner, "group_release")
              PROVE  Released(Owner) # c /\ Released(Owner).count = 0 /\ ~c.released
          <5>1. c = Counted(1, TRUE)
            BY <1>3, <2>3, <3>1, <3>3, <4>2 DEF Section, Full
          <5>2. c.group /\ c.count = 1 /\ ~c.released
            <6>1. 1 \in Int
              OBVIOUS
            <6>2. Counted(1, TRUE).count = 1 /\ Counted(1, TRUE).group /\ ~Counted(1, TRUE).released
              BY <6>1, CountedChange
            <6> QED
              BY <5>1, <6>2
          <5>3. Released(Owner) = [c EXCEPT !.group = FALSE, !.count = @ - 1]
            BY <1>2, <3>1, <5>2 DEF Released
          <5>4. Released(Owner).count = 0
            BY <5>1, <5>2, <5>3 DEF Counted
          <5> QED
            BY <5>2, <5>4
        <4>3. LastEnds(Owner)
          BY <4>1, <4>2 DEF KeepEnds
        <4>4. ~refs.released
          BY DEF KeptByGroup, Attached
        <4> QED
          BY <4>2, <4>3, <4>4 DEF LastEnds
      <3> QED
        BY <3>2, <3>3 DEF Closed
    <2> QED
      BY <2>4, <2>6, <2>7, <2>8, <2>9 DEF KeptByGroup, Joined
  <1> QED
    BY <1>0, <1>6, <1>7, Steps

LEMMA KeptInv ==
    ASSUME IInv, Serially, Polling, Kept, [PromiseNext]_pvars
    PROVE  Kept'
  <1>0. /\ pc \in [Threads -> {"idle", "copy", "poll", "sleep", "woken"}] /\ script \in [Threads -> Seq(Calls)]
        /\ Owner \in Threads /\ Worker \in Threads /\ Owner # Worker
        /\ \A t \in Threads : t = Owner \/ t = Worker
    BY PromiseConstants DEF IInv, PromiseType, Threads
  <1>1. CASE Alone
    BY <1>1, AloneInv DEF Kept
  <1>2. CASE Attaching
    BY <1>2, AttachingInv DEF Kept
  <1>3. CASE KeptByGroup
    <2>1. CASE UNCHANGED pvars
      BY <1>3, <2>1 DEF pvars, Kept, KeptByGroup, Call
    <2>2. ASSUME NEW t \in Threads, Begin(t), serial' = serial PROVE KeptByGroup'
      <3>1. /\ pc' = [pc EXCEPT ![t] = "copy"] /\ copied' = [copied EXCEPT ![t] = {}]
            /\ UNCHANGED <<script, refs, freed, copy>>
            /\ Call(t) = "group_release" => script[Worker] = <<>>
        BY <2>2 DEF Begin, Enabled, memory
      <3>2. copied \in [Threads -> SUBSET {"state", "refs"}]
        BY DEF IInv, PromiseType
      <3>3. \A u \in Threads : pc'[u] = "copy" /\ "refs" \in copied'[u] => Attached(copy'[u].refs)
        BY <1>0, <1>3, <3>1, <3>2 DEF KeptByGroup
      <3>4. ToClose(script[Owner]) /\ pc'[Owner] # "idle" => script[Worker] = <<>>
        <4>1. ToClose(script[Owner]) => Call(Owner) = "group_release"
          BY <1>0, JoinedTail DEF Call
        <4>2. t # Owner => pc'[Owner] = pc[Owner]
          BY <1>0, <3>1
        <4> QED
          BY <1>3, <3>1, <4>1, <4>2 DEF KeptByGroup
      <3>5. pc'[Owner] \in {"sleep", "woken"} => pc[Owner] \in {"sleep", "woken"}
        BY <1>0, <3>1
      <3> QED
        BY <1>3, <2>2, <3>1, <3>3, <3>4, <3>5 DEF KeptByGroup, Call
    <2>3. ASSUME NEW t \in Threads, CallStep(t) \/ SpuriousPromiseWake(t), serial' = serial PROVE Kept'
      <3>1. CASE t = Worker
        BY <1>3, <2>3, <3>1, WorkerKeeps DEF Kept
      <3>2. CASE t = Owner
        BY <1>3, <2>3, <3>2, OwnerKeeps DEF Kept
      <3> QED
        BY <1>0, <3>1, <3>2
    <2> QED
      BY <2>1, <2>2, <2>3 DEF PromiseNext, Kept
  <1>4. CASE Closed
    <2>1. \A t \in Threads : script[t] = <<>> /\ pc[t] = "idle"
      BY <1>0, <1>4 DEF Closed, IInv, Calling
    <2>2. ASSUME NEW t \in Threads PROVE ~Begin(t) /\ ~CallStep(t) /\ ~SpuriousPromiseWake(t)
      <3>1. ~Begin(t)
        BY <2>1, <2>2 DEF Begin, Enabled
      <3> QED
        BY <2>1, <2>2, <3>1, StepShape
    <2>3. UNCHANGED pvars
      BY <2>2 DEF PromiseNext
    <2> QED
      BY <1>4, <2>3 DEF pvars, Kept, Closed
  <1> QED
    BY <1>1, <1>2, <1>3, <1>4 DEF Kept

\* The calls of a serial run, whatever they are.
LEMMA SerialInvariant == PromiseSpec => [](Serially /\ ContextThere)
  <1>1. PromiseInit => Serially /\ ContextThere
    BY DEF PromiseInit, Serially, ContextThere
  <1>2. IInv /\ Serially /\ ContextThere /\ [PromiseNext]_pvars => Serially' /\ ContextThere'
    BY SeriallyInv, ContextInv
  <1> QED
    BY <1>1, <1>2, Invariant, PTL DEF PromiseSpec

(* If no two calls overlap, the captured values go to one place once: to the *)
(* body, which is started once, or to the drop function (asyncWait and       *)
(* asyncReleaseContext), whatever calls the threads make and in what order.  *)
THEOREM ContextGoesOnce == PromiseSpec => []ContextConsumedOnceSerially
  <1>1. ContextThere => ContextConsumedOnceSerially
    BY DEF ContextThere, ContextConsumedOnceSerially, ContextConsumedOnce
  <1> QED
    BY <1>1, SerialInvariant, PTL

\* The calls that programs make.
LEMMA ProgramInvariant == Programs => (PromiseSpec => [](IInv /\ Kept))
  <1> SUFFICES ASSUME Programs PROVE PromiseSpec => [](IInv /\ Kept)
    OBVIOUS
  <1>1. PromiseInit => Polling /\ Kept
    BY KeptAtFirst DEF PromiseInit, Polling
  <1>2. IInv /\ Serially /\ Polling /\ Kept /\ [PromiseNext]_pvars => Polling' /\ Kept'
    BY PollingInv, KeptInv
  <1> QED
    BY <1>1, <1>2, Invariant, SerialInvariant, PTL DEF PromiseSpec

(* Nothing is read or written after the promise was freed, and when the       *)
(* calls have returned, one after the other, the promise and its mutex are    *)
(* freed: for a promise awaited any number of times and dropped, and for a    *)
(* task attached to a group, with any number of awaits and any calls of its   *)
(* worker, however the calls overlap.  Each of them works on a copy that may  *)
(* be old; what keeps the promise is the group's reference, which no copy has *)
(* lost (asyncRelease, asyncGroupRelease).                                    *)
THEOREM FreedOnceUnused == Programs => (PromiseSpec => []FreedAtLast)
  <1>1. IInv /\ Kept => FreedAtLast
    <2> SUFFICES ASSUME IInv, Kept PROVE FreedAtLast
      OBVIOUS
    <2>1. ASSUME freed, NEW t \in Threads PROVE pc[t] = "idle" /\ script[t] = <<>>
      <3>1. script[Owner] = <<>> /\ script[Worker] = <<>>
        BY <2>1 DEF Kept, Alone, Attaching, KeptByGroup, Closed
      <3> QED
        BY <3>1 DEF IInv, Calling, Threads
    <2>2. ASSUME serial, Done PROVE freed
      <3>1. script[Owner] = <<>>
        BY <2>2 DEF Done, Threads
      <3>2. ~ToAttach(script[Owner]) /\ ~Joined(script[Owner])
        BY <3>1, EmptySeq DEF ToAttach, Joined, ToRetain, ToPass, ToUse, ToClose, Use
      <3> QED
        BY <2>2, <3>1, <3>2 DEF Kept, Alone, Attaching, KeptByGroup, Closed
    <2> QED
      BY <2>1, <2>2 DEF FreedAtLast
  <1> QED
    BY <1>1, ProgramInvariant, PTL
=============================================================================
