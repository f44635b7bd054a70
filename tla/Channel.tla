------------------------------ MODULE Channel ------------------------------
(* The bounded channel of runtime/runtime.tn (channelCreate .. Destroy) and  *)
(* its std/sync.tn wrapper Channel<T>.                                       *)
(*                                                                           *)
(* Every runtime operation begins with channelRead, which copies the whole   *)
(* ChannelState before the mutex is taken, and later writes the whole copy   *)
(* back.  The copy is a data race with the writers, so it is modelled field  *)
(* by field in any order (ReadField).  Writers write under the mutex in one  *)
(* step: since a reader may read its fields in any order and at any time, a  *)
(* torn write shows it nothing that untorn ones do not.  The pointers, the   *)
(* capacity and `unbuffered` never change after channelCreate.  Memory is    *)
(* sequentially consistent.                                                  *)
EXTENDS Naturals, Sequences, FiniteSets

CONSTANTS
    Threads,    \* the threads that use the channel
    Ops,        \* Ops[c][t]: the operations that thread t may call on a
                \* channel created with capacity c
    NoThread,   \* nobody
    MaxSends    \* how many messages are ever sent: bounds the histories

ASSUME ChannelAssumption ==
    /\ DOMAIN Ops \subseteq Nat
    /\ MaxSends \in Nat
    /\ NoThread \notin Threads
    /\ \A c \in DOMAIN Ops :
          Ops[c] \in [Threads -> SUBSET {"send", "trySend", "receive", "tryReceive",
                                        "close", "destroy"}]

Messages == 1 .. MaxSends
Fields == {"length", "head", "closed"}

VARIABLES
    chan,       \* the shared ChannelState: capacity, length, head, closed
    storage,    \* storage[i]: the bits of slot i (0: never written)
    initialized,\* initialized[i]: slot i owns its message
    owner,      \* the thread holding the mutex
    readable,   \* threads waiting on the condition `readable`
    writable,   \* threads waiting on the condition `writable`
    pc,         \* where each thread is in its operation
    op,         \* the operation it runs
    copy,       \* its private copy of ChannelState
    toRead,     \* fields its channelRead has still to copy
    index,      \* the slot its Begin call returned
    message,    \* the message it is sending (0: none)
    handle,     \* the wrapper's flags: closed and destroyed
    sent,       \* messages committed, in order
    got,        \* messages received, in order
    kept,       \* messages trySend handed back to its caller
    drops,      \* drops[m]: destructor calls for message m
    next        \* the next fresh message

shared == <<chan, storage, initialized, handle>>
local == <<op, copy, toRead, index, message>>
history == <<sent, got, kept, drops, next>>
vars == <<shared, owner, readable, writable, pc, local, history>>

Unbuffered == chan.capacity = 0
Slots == IF Unbuffered THEN 1 ELSE chan.capacity  \* actualCapacity
Index == 0 .. Slots - 1
Calls(t) == Ops[chan.capacity][t]

\* channelCreate, with any of the capacities
Init ==
    /\ \E c \in DOMAIN Ops :
          chan = [capacity |-> c, length |-> 0, head |-> 0, closed |-> FALSE]
    /\ storage = [i \in Index |-> 0]
    /\ initialized = [i \in Index |-> FALSE]
    /\ owner = NoThread
    /\ readable = {}
    /\ writable = {}
    /\ pc = [t \in Threads |-> "idle"]
    /\ op = [t \in Threads |-> "none"]
    /\ copy = [t \in Threads |-> chan]
    /\ toRead = [t \in Threads |-> {}]
    /\ index = [t \in Threads |-> 0]
    /\ message = [t \in Threads |-> 0]
    /\ handle = [closed |-> FALSE, destroyed |-> FALSE]
    /\ sent = <<>>
    /\ got = <<>>
    /\ kept = {}
    /\ drops = [m \in Messages |-> 0]
    /\ next = 1

----------------------------------------------------------------------------
(* Helpers.                                                                 *)

At(t, step) == pc[t] = step
Goto(t, step) == pc' = [pc EXCEPT ![t] = step]
Sending(o) == o \in {"send", "trySend"}
Receiving(o) == o \in {"receive", "tryReceive"}

(* What thread t believes: a woken thread has re-read the channel under the *)
(* mutex, any other still holds the copy it took before locking.            *)
View(t) == IF At(t, "woken") THEN chan ELSE copy[t]

(* conditionSignal wakes one waiter of the condition, if there is any.      *)
Signal(waiters, waiters2) ==
    IF waiters = {} THEN waiters2 = {}
    ELSE \E w \in waiters : waiters2 = waiters \ {w}

(* storeElement drops what the slot owned before it stores the new message. *)
StoreElement(i, m) ==
    /\ storage' = [storage EXCEPT ![i] = m]
    /\ initialized' = [initialized EXCEPT ![i] = TRUE]
    /\ drops' = IF initialized[i] THEN [drops EXCEPT ![storage[i]] = @ + 1]
                ELSE drops

AtCapacity(c) == c.length = Slots

FreeSlot(c) == (c.head + c.length) % Slots

(* Mutant: `head` does not advance. *)
WithoutOldestKeepsHead(c) == [c EXCEPT !.length = @ - 1]

(* What a receive writes back: the oldest message is gone.                  *)
WithoutOldest(c) == [c EXCEPT !.head = (@ + 1) % Slots, !.length = @ - 1]

(* Which of the sends waits when the channel is full.                       *)
WaitsForRoom(o) == o = "send"

----------------------------------------------------------------------------
(* Entering an operation: the wrapper's early returns, then channelRead.    *)

(* The wrapper refuses: send drops its argument, trySend hands it back.     *)
Refused(o) ==
    \/ handle.destroyed
    \/ handle.closed /\ o \in {"send", "trySend", "close"}

Start(t, o) ==
    /\ At(t, "idle")
    /\ o \in Calls(t) \ {"destroy"}
    /\ Sending(o) => next <= MaxSends
    /\ next' = IF Sending(o) THEN next + 1 ELSE next
    /\ IF Refused(o)
       THEN /\ drops' = IF o = "send" THEN [drops EXCEPT ![next] = @ + 1]
                        ELSE drops
            /\ kept' = IF o = "trySend" THEN kept \cup {next} ELSE kept
            /\ UNCHANGED <<pc, op, toRead, message>>
       ELSE /\ Goto(t, "read")
            /\ op' = [op EXCEPT ![t] = o]
            /\ toRead' = [toRead EXCEPT ![t] = Fields]
            /\ message' = [message EXCEPT ![t] = IF Sending(o) THEN next ELSE 0]
            /\ UNCHANGED <<drops, kept>>
    /\ UNCHANGED <<shared, owner, readable, writable, copy, index, sent, got>>

ReadField(t, f) ==
    /\ At(t, "read")
    /\ f \in toRead[t]
    /\ copy' = [copy EXCEPT ![t][f] = chan[f]]
    /\ toRead' = [toRead EXCEPT ![t] = @ \ {f}]
    /\ IF toRead[t] = {f} THEN Goto(t, "lock") ELSE pc' = pc
    /\ UNCHANGED <<shared, owner, readable, writable, op, index, message, history>>

----------------------------------------------------------------------------
(* Sending.                                                                 *)

(* The refused message: send drops it on return, trySend returns it.        *)
Refuse(t) ==
    /\ drops' = IF op[t] = "send" THEN [drops EXCEPT ![message[t]] = @ + 1]
                ELSE drops
    /\ kept' = IF op[t] = "trySend" THEN kept \cup {message[t]} ELSE kept
    /\ message' = [message EXCEPT ![t] = 0]
    /\ Goto(t, "idle")
    /\ UNCHANGED owner

CanStart(t) == owner = NoThread /\ (At(t, "lock") \/ At(t, "woken"))

(* channelSendIndexBegin and channelTrySendIndexBegin, from mutexLock (or   *)
(* from the return of conditionWait) to the return or the next wait.        *)
SendIndexBegin(t) ==
    /\ CanStart(t)
    /\ Sending(op[t])
    /\ LET c == View(t)
       IN  /\ copy' = [copy EXCEPT ![t] = c]
           /\ \/ /\ WaitsForRoom(op[t]) /\ AtCapacity(c) /\ ~c.closed
                 /\ writable' = writable \cup {t}
                 /\ Goto(t, "waitWritable")
                 /\ UNCHANGED <<owner, index, message, drops, kept>>
              \/ /\ c.closed \/ (AtCapacity(c) /\ ~WaitsForRoom(op[t]))
                 /\ Refuse(t)
                 /\ UNCHANGED <<writable, index>>
              \/ /\ ~c.closed /\ ~AtCapacity(c)
                 /\ owner' = t
                 /\ index' = [index EXCEPT ![t] = FreeSlot(c)]
                 /\ Goto(t, "store")
                 /\ UNCHANGED <<writable, message, drops, kept>>
    /\ UNCHANGED <<shared, readable, op, toRead, sent, got, next>>

(* storeElement<T>: the wrapper's step between Begin and Commit.            *)
Store(t) ==
    /\ At(t, "store")
    /\ StoreElement(index[t], message[t])
    /\ Goto(t, "commitSend")
    /\ UNCHANGED <<chan, handle, owner, readable, writable, local, sent, got,
                   kept, next>>

(* channelSendIndexCommit: re-reads under the mutex, which is still held,   *)
(* and publishes.  On an unbuffered channel the call then waits until the   *)
(* message is taken, whichever send called it.                              *)
SendIndexCommit(t) ==
    /\ At(t, "commitSend")
    /\ chan' = [chan EXCEPT !.length = @ + 1]
    /\ sent' = Append(sent, message[t])
    /\ message' = [message EXCEPT ![t] = 0]
    /\ Signal(readable, readable')
    /\ owner' = NoThread
    /\ IF Unbuffered /\ ~chan.closed
       THEN writable' = writable \cup {t} /\ Goto(t, "rendezvous")
       ELSE writable' = writable /\ Goto(t, "idle")
    /\ UNCHANGED <<storage, initialized, handle, op, copy, toRead, index, got,
                   kept, drops, next>>

(* Mutant: the loop waits for the channel to be closed and for nothing else. *)
RendezvousUntilClosed(t) ==
    /\ At(t, "rendezvous")
    /\ t \notin writable
    /\ owner = NoThread
    /\ IF ~chan.closed
       THEN writable' = writable \cup {t} /\ pc' = pc
       ELSE writable' = writable /\ Goto(t, "idle")
    /\ UNCHANGED <<shared, owner, readable, local, history>>

(* The loop of channelSendIndexCommit after a wake-up.                      *)
Rendezvous(t) ==
    /\ At(t, "rendezvous")
    /\ t \notin writable
    /\ owner = NoThread
    /\ IF chan.length # 0 /\ ~chan.closed
       THEN writable' = writable \cup {t} /\ pc' = pc
       ELSE writable' = writable /\ Goto(t, "idle")
    /\ UNCHANGED <<shared, owner, readable, local, history>>

----------------------------------------------------------------------------
(* Receiving.                                                               *)

(* channelReceiveIndexBegin and channelTryReceiveIndexBegin: only the       *)
(* blocking form waits.  The whole private copy is written back.            *)
ReceiveIndexBegin(t) ==
    /\ CanStart(t)
    /\ Receiving(op[t])
    /\ LET c == View(t)
           empty == c.length = 0
       IN  \/ /\ op[t] = "receive" /\ empty /\ ~c.closed
              /\ readable' = readable \cup {t}
              /\ copy' = [copy EXCEPT ![t] = c]
              /\ Goto(t, "waitReadable")
              /\ UNCHANGED <<chan, owner, writable, index>>
           \/ /\ empty /\ (op[t] = "tryReceive" \/ c.closed)
              /\ copy' = [copy EXCEPT ![t] = c]
              /\ Goto(t, "idle")
              /\ UNCHANGED <<chan, owner, readable, writable, index>>
           \/ /\ ~empty
              /\ owner' = t
              /\ index' = [index EXCEPT ![t] = c.head]
              /\ chan' = WithoutOldest(c)
              /\ copy' = [copy EXCEPT ![t] = chan']
              /\ Signal(writable, writable')
              /\ Goto(t, "take")
              /\ UNCHANGED readable
    /\ UNCHANGED <<storage, initialized, handle, op, toRead, message, history>>

(* Mutant: the moved-out slot still counts as initialized. *)
TakeKeepsInitialized(t) ==
    /\ At(t, "take")
    /\ got' = Append(got, storage[index[t]])
    /\ initialized' = initialized
    /\ owner' = NoThread
    /\ Goto(t, "idle")
    /\ UNCHANGED <<chan, storage, handle, readable, writable, local, sent, kept,
                   drops, next>>

(* moveElement<T>, then channelReceiveIndexCommit, which only unlocks.  The *)
(* slot's bits stay behind; moveElement does not look at `initialized`.     *)
Take(t) ==
    /\ At(t, "take")
    /\ got' = Append(got, storage[index[t]])
    /\ initialized' = [initialized EXCEPT ![index[t]] = FALSE]
    /\ owner' = NoThread
    /\ Goto(t, "idle")
    /\ UNCHANGED <<chan, storage, handle, readable, writable, local, sent, kept,
                   drops, next>>

----------------------------------------------------------------------------
(* Waking, closing and destroying.                                          *)

(* conditionWait returns: signalled, or spuriously (POSIX allows it).       *)
Wake(t) ==
    /\ \/ At(t, "waitWritable") /\ t \notin writable
       \/ At(t, "waitReadable") /\ t \notin readable
    /\ Goto(t, "woken")
    /\ UNCHANGED <<shared, owner, readable, writable, local, history>>

SpuriousWake(t) ==
    /\ t \in readable \cup writable
    /\ readable' = readable \ {t}
    /\ writable' = writable \ {t}
    /\ UNCHANGED <<shared, owner, pc, local, history>>

(* channelClose writes its whole stale copy back, with `closed` set.        *)
Close(t) ==
    /\ CanStart(t)
    /\ op[t] = "close"
    /\ chan' = [copy[t] EXCEPT !.closed = TRUE]
    /\ readable' = {}
    /\ writable' = {}
    /\ handle' = [handle EXCEPT !.closed = TRUE]
    /\ Goto(t, "idle")
    /\ UNCHANGED <<storage, initialized, owner, local, history>>

(* Channel.destroy and [Symbol.dispose]: drops what the slots own and frees *)
(* the channel.  The caller owns it, so no other operation is under way.    *)
Destroy(t) ==
    /\ "destroy" \in Calls(t)
    /\ \A u \in Threads : At(u, "idle")
    /\ ~handle.destroyed
    /\ handle' = [handle EXCEPT !.destroyed = TRUE]
    /\ drops' = [m \in Messages |->
                    drops[m] + Cardinality({i \in Index : initialized[i] /\ storage[i] = m})]
    /\ initialized' = [i \in Index |-> FALSE]
    /\ UNCHANGED <<chan, storage, owner, readable, writable, pc, local, sent,
                   got, kept, next>>

Work(t) ==
    \/ \E f \in Fields : ReadField(t, f)
    \/ SendIndexBegin(t)
    \/ Store(t)
    \/ SendIndexCommit(t)
    \/ Rendezvous(t)
    \/ ReceiveIndexBegin(t)
    \/ Take(t)
    \/ Wake(t)
    \/ Close(t)

Next == \E t \in Threads :
    \/ \E o \in Calls(t) : Start(t, o)
    \/ Work(t)
    \/ SpuriousWake(t)
    \/ Destroy(t)

Spec == Init /\ [][Next]_vars

(* A thread inside an operation keeps being scheduled, and one that waits    *)
(* for the mutex gets it if it is free again and again.  Nobody is obliged   *)
(* to start an operation, and conditionWait need not return unsignalled.     *)
FairSpec == Spec /\ \A t \in Threads : SF_vars(Work(t))

----------------------------------------------------------------------------
(* Properties.                                                              *)

(* Every variable keeps its kind of value; the length stays within the      *)
(* slots that channelCreate allocated.                                      *)
TypeOK ==
    /\ chan \in [capacity : DOMAIN Ops, length : 0 .. Slots, head : Index, closed : BOOLEAN]
    /\ storage \in [Index -> Messages \cup {0}]
    /\ initialized \in [Index -> BOOLEAN]
    /\ owner \in Threads \cup {NoThread}
    /\ readable \subseteq Threads
    /\ writable \subseteq Threads
    /\ pc \in [Threads -> {"idle", "read", "lock", "waitWritable", "waitReadable",
                           "woken", "store", "commitSend", "rendezvous", "take"}]
    /\ toRead \in [Threads -> SUBSET Fields]
    /\ index \in [Threads -> Index]
    /\ message \in [Threads -> Messages \cup {0}]
    /\ handle \in [closed : BOOLEAN, destroyed : BOOLEAN]
    /\ next \in 1 .. MaxSends + 1

(* Each message handed to the channel has exactly one owner at any moment:  *)
(* a slot, the sender still holding it, the receiver that got it, the       *)
(* caller trySend gave it back to, or the one destructor call that ended    *)
(* it.  A second owner is a double drop, no owner is a leak.                *)
Owners(m) ==
      Cardinality({i \in Index : initialized[i] /\ storage[i] = m})
    + Cardinality({t \in Threads : message[t] = m /\ ~At(t, "commitSend")})
    + Cardinality({k \in DOMAIN got : got[k] = m})
    + Cardinality({m} \cap kept)
    + drops[m]

OneOwner == \A m \in 1 .. next - 1 : Owners(m) = 1

(* While nobody is between Begin and Commit, the slots that own a message   *)
(* are exactly the `length` slots from `head` on: what the destructor       *)
(* drops is what a receiver could still have taken.                         *)
Window == {(chan.head + k) % Slots : k \in 0 .. chan.length - 1}
SlotsMatchQueue ==
    owner = NoThread /\ ~handle.destroyed => {i \in Index : initialized[i]} = Window

(* The channel is the queue it promises to be: MessageQueue, with the       *)
(* committed messages as the queue.  A receive takes effect when Begin      *)
(* moves `head`, though the message leaves its slot a step later.           *)
Queued == IF handle.destroyed THEN <<>>
          ELSE [k \in 1 .. chan.length |-> storage[(chan.head + k - 1) % Slots]]
Taken == IF \E t \in Threads : At(t, "take")
         THEN Append(got, storage[index[CHOOSE t \in Threads : At(t, "take")]])
         ELSE got
Queue == INSTANCE MessageQueue
         WITH bound <- Slots, queue <- Queued, taken <- Taken,
              closed <- chan.closed, discarded <- handle.destroyed
IsQueue == Queue!Spec

(* The sender on an unbuffered channel returns once its message has been    *)
(* taken: the signal of channelReceiveIndexBegin is never lost to it.       *)
TakenSendReturns == \A t \in Threads :
    (At(t, "rendezvous") /\ chan.length = 0) ~> At(t, "idle")
=============================================================================
