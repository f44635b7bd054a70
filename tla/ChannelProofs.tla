---------------------------- MODULE ChannelProofs ----------------------------
(* Proofs about Channel, for any threads, capacities and number of messages: *)
(* where the uses are disciplined, each message has one owner and the ring   *)
(* of slots is the queue that MessageQueue promises.                         *)
EXTENDS Channel, FiniteSetTheorems, SequenceTheorems, TLAPS

Sends == {"send", "trySend"}
Receives == {"receive", "tryReceive"}

(* The copies that channelRead takes outside the mutex are harmless if two   *)
(* threads that use the channel are a sender and a receiver around one slot. *)
Disciplined ==
    \A c \in DOMAIN Ops : \A t, u \in Threads :
        \/ t = u \/ Ops[c][t] = {} \/ Ops[c][u] = {}
        \/ /\ c <= 1
           /\ \/ Ops[c][t] \subseteq Sends /\ Ops[c][u] \subseteq Receives
              \/ Ops[c][t] \subseteq Receives /\ Ops[c][u] \subseteq Sends

-----------------------------------------------------------------------------
(* The inductive invariant.                                                  *)

Operations == Sends \cup Receives \cup {"close"}
Inside == {"store", "commitSend", "take"}   \* between Begin and Commit

TypeInv ==
    /\ TypeOK
    /\ op \in [Threads -> Operations \cup {"none"}]
    /\ copy \in [Threads -> [capacity : {chan.capacity}, length : 0 .. Slots,
                             head : Index, closed : BOOLEAN]]
    /\ got \in Seq(Messages) 
    /\ kept \subseteq Messages
    /\ drops \in [Messages -> Nat]

\* The mutex is held from Begin to Commit, and each place has its operations.
Placed ==
    \A t \in Threads :
        /\ pc[t] \in Inside <=> owner = t
        /\ pc[t] # "idle" => op[t] \in Calls(t)
        /\ pc[t] \in {"store", "commitSend", "rendezvous", "waitWritable"} => Sending(op[t])
        /\ pc[t] \in {"take", "waitReadable"} => Receiving(op[t])
        /\ pc[t] = "woken" => op[t] # "close"
        /\ pc[t] \notin {"idle", "rendezvous"} /\ Sending(op[t]) <=> message[t] # 0
        /\ pc[t] = "lock" => toRead[t] = {}

\* A copy is out of date only in the length, and only on the safe side.
Fresh(t) ==
    /\ "head" \notin toRead[t] => copy[t].head = chan.head
    /\ "closed" \notin toRead[t] => copy[t].closed = chan.closed
    /\ "length" \notin toRead[t] =>
          \/ copy[t].length = chan.length
          \/ Slots = 1 /\ Sending(op[t]) /\ chan.length <= copy[t].length
          \/ Slots = 1 /\ Receiving(op[t]) /\ copy[t].length <= chan.length
CopiesFresh == \A t \in Threads : pc[t] \in {"read", "lock"} => Fresh(t)

\* The slots that own a message, also between Begin and Commit.
InFlight(i) == \E t \in Threads : pc[t] \in {"commitSend", "take"} /\ index[t] = i
Ring ==
    /\ handle.destroyed => \A t \in Threads : pc[t] = "idle"
    /\ \A i \in Index :
          initialized[i] <=> ~handle.destroyed /\ (i \in Window \/ InFlight(i))
    /\ \A i \in Index : initialized[i] => storage[i] # 0
    /\ \A t \in Threads :
          /\ pc[t] \in {"store", "commitSend"} =>
                ~chan.closed /\ chan.length < Slots /\ index[t] = FreeSlot(chan)
          /\ pc[t] = "commitSend" => storage[index[t]] = message[t]
          /\ pc[t] = "take" => index[t] \notin Window

\* Who owns a message, each kind of owner by itself.
InSlots(m) == {i \in Index : initialized[i] /\ storage[i] = m}
HeldBy(m) == {t \in Threads : message[t] = m /\ ~At(t, "commitSend")}
GotAt(m) == {k \in DOMAIN got : got[k] = m}

Owned ==
    \A m \in Messages :
        /\ IsFiniteSet(HeldBy(m))
        /\ Owners(m) = IF m < next THEN 1 ELSE 0

IInv == TypeInv /\ Placed /\ CopiesFresh /\ Ring /\ Owned
-----------------------------------------------------------------------------
(* Counting, and arithmetic around the ring.                                 *)

\* A new owner of one kind raises the count of that kind by one.
LEMMA CountAdd ==
    ASSUME NEW S, IsFiniteSet(S), NEW x, x \notin S
    PROVE  /\ IsFiniteSet(S \cup {x})
           /\ Cardinality(S) \in Nat
           /\ Cardinality(S \cup {x}) = Cardinality(S) + 1
  BY FS_AddElement, FS_CardinalityType

\* An owner that gives the message up lowers it by one.
LEMMA CountRemove ==
    ASSUME NEW S, IsFiniteSet(S), NEW x, x \in S
    PROVE  /\ IsFiniteSet(S \ {x})
           /\ Cardinality(S) \in Nat \ {0}
           /\ Cardinality(S \ {x}) = Cardinality(S) - 1
  BY FS_RemoveElement, FS_CardinalityType, FS_EmptySet

\* Going around the ring once is a subtraction.
LEMMA Around ==
    ASSUME NEW s \in Nat \ {0}, NEW h \in 0 .. s - 1
    PROVE  \A k \in 0 .. s : (h + k) % s = IF h + k < s THEN h + k ELSE h + k - s
  <1> SUFFICES ASSUME NEW k \in 0 .. s
               PROVE  (h + k) % s = IF h + k < s THEN h + k ELSE h + k - s
    OBVIOUS
  <1> DEFINE a == h + k
  <1>1. a \in Nat /\ a < 2 * s
    OBVIOUS
  <1>2. a % s = IF a < s THEN a ELSE a - s
    <2> HIDE DEF a
    <2> QED
      BY <1>1
  <1> QED
    BY <1>2

\* The n slots from h on.
From(s, h, n) == {(h + k) % s : k \in 0 .. n - 1}

\* A commit publishes the slot after the window, which was not in it.
LEMMA WindowGrows ==
    ASSUME NEW s \in Nat \ {0}, NEW h \in 0 .. s - 1, NEW n \in 0 .. s - 1
    PROVE  /\ (h + n) % s \in 0 .. s - 1
           /\ (h + n) % s \notin From(s, h, n)
           /\ From(s, h, n + 1) = From(s, h, n) \cup {(h + n) % s}
  <1>1. \A k \in 0 .. s : (h + k) % s = IF h + k < s THEN h + k ELSE h + k - s
    BY Around
  <1>2. \A k \in 0 .. n - 1 : (h + n) % s # (h + k) % s
    BY <1>1
  <1>3. 0 .. (n + 1) - 1 = (0 .. n - 1) \cup {n}
    OBVIOUS
  <1>4. (h + n) % s \in 0 .. s - 1
    BY <1>1
  <1> QED
    BY <1>2, <1>3, <1>4 DEF From

\* A receive takes the first slot of the window off.
LEMMA WindowShrinks ==
    ASSUME NEW s \in Nat \ {0}, NEW h \in 0 .. s - 1, NEW n \in 1 .. s
    PROVE  /\ (h + 1) % s \in 0 .. s - 1
           /\ h \notin From(s, (h + 1) % s, n - 1)
           /\ From(s, h, n) = From(s, (h + 1) % s, n - 1) \cup {h}
  <1>1. \A k \in 0 .. s : (h + k) % s = IF h + k < s THEN h + k ELSE h + k - s
    BY Around
  <1>2. (h + 1) % s \in 0 .. s - 1
    BY <1>1
  <1>3. \A k \in 0 .. n - 2 : (((h + 1) % s) + k) % s = (h + (k + 1)) % s
    <2> SUFFICES ASSUME NEW k \in 0 .. n - 2
                 PROVE  (((h + 1) % s) + k) % s = (h + (k + 1)) % s
      OBVIOUS
    <2>1. (h + (k + 1)) % s = IF h + (k + 1) < s THEN h + (k + 1) ELSE h + (k + 1) - s
      BY <1>1
    <2>2. (h + 1) % s = IF h + 1 < s THEN h + 1 ELSE h + 1 - s
      BY <1>1
    <2>3. CASE h + 1 < s
      BY <2>2, <2>3
    <2>4. CASE h + 1 = s
      <3>1. (h + 1) % s = 0
        BY <2>2, <2>4
      <3>2. (0 + k) % s = k
        BY Around
      <3> QED
        BY <2>1, <2>4, <3>1, <3>2
    <2> QED
      BY <2>3, <2>4
  <1>4. \A k \in 0 .. n - 2 : (h + (k + 1)) % s # h
    BY <1>1
  <1>5. (h + 0) % s = h
    BY <1>1
  <1>6. From(s, (h + 1) % s, n - 1) = {(h + (k + 1)) % s : k \in 0 .. n - 2}
    <2>1. (n - 1) - 1 = n - 2
      OBVIOUS
    <2> QED
      BY <1>3, <2>1, Zenon DEF From
  <1>8. \A k \in 0 .. n - 2 : k + 1 \in 0 .. n - 1
    OBVIOUS
  <1>9. From(s, h, n) = {(h + (k + 1)) % s : k \in 0 .. n - 2} \cup {h}
    <2>1. ASSUME NEW j \in 0 .. n - 1
          PROVE  (h + j) % s \in {(h + (k + 1)) % s : k \in 0 .. n - 2} \cup {h}
      <3>1. CASE j = 0
        BY <3>1, <1>5
      <3>2. CASE j # 0
        <4>1. j - 1 \in 0 .. n - 2 /\ (j - 1) + 1 = j
          BY <3>2
        <4> QED
          BY <4>1
      <3> QED
        BY <3>1, <3>2
    <2>2. {(h + (k + 1)) % s : k \in 0 .. n - 2} \subseteq From(s, h, n)
      BY <1>8 DEF From
    <2>3. h \in From(s, h, n)
      <3>1. 0 \in 0 .. n - 1
        OBVIOUS
      <3> QED
        BY <1>5, <3>1, Zenon DEF From
    <2> QED
      BY <2>1, <2>2, <2>3 DEF From
  <1> QED
    BY <1>2, <1>4, <1>6, <1>9

\* The slots of the window are slots of the ring, each in one place of it.
LEMMA WindowPlaces ==
    ASSUME NEW s \in Nat \ {0}, NEW h \in 0 .. s - 1
    PROVE  \A j, k \in 0 .. s - 1 :
              (h + j) % s \in 0 .. s - 1 /\ ((h + j) % s = (h + k) % s => j = k)
  <1>1. \A k \in 0 .. s : (h + k) % s = IF h + k < s THEN h + k ELSE h + k - s
    BY Around
  <1> QED
    BY <1>1
-----------------------------------------------------------------------------
(* What the invariant says in the words the steps need.                      *)

\* The ring has a slot, and more than one only if the capacity says so.
LEMMA SlotsFact ==
    ASSUME TypeInv
    PROVE  /\ chan.capacity \in DOMAIN Ops
           /\ Slots \in Nat \ {0}
           /\ Slots = 1 <=> chan.capacity <= 1
           /\ Window = From(Slots, chan.head, chan.length)
  <1>1. chan.capacity \in DOMAIN Ops /\ chan.capacity \in Nat
    BY ChannelAssumption DEF TypeInv, TypeOK
  <1> QED
    BY <1>1 DEF Slots, Unbuffered, Window, From

\* What may be called is an operation; two threads inside operations are a
\* sender and a receiver around one slot.
LEMMA CallsFact ==
    ASSUME TypeInv, NEW t \in Threads
    PROVE  Calls(t) \subseteq Operations \cup {"destroy"}
  BY SlotsFact, ChannelAssumption DEF Calls, Operations, Sends, Receives

LEMMA TwoThreads ==
    ASSUME Disciplined, TypeInv, NEW t \in Threads, NEW u \in Threads, t # u,
           Calls(t) # {}, Calls(u) # {}
    PROVE  /\ Slots = 1
           /\ \/ Calls(t) \subseteq Sends /\ Calls(u) \subseteq Receives
              \/ Calls(t) \subseteq Receives /\ Calls(u) \subseteq Sends
  BY SlotsFact DEF Disciplined, Calls

\* What a thread believes when it starts its critical section.
LEMMA ViewFact ==
    ASSUME IInv, NEW t \in Threads, CanStart(t)
    PROVE  /\ View(t) \in [capacity : {chan.capacity}, length : 0 .. Slots,
                           head : Index, closed : BOOLEAN]
           /\ View(t).capacity = chan.capacity
           /\ View(t).head = chan.head
           /\ View(t).closed = chan.closed
           /\ \/ View(t).length = chan.length
              \/ Slots = 1 /\ Sending(op[t]) /\ chan.length <= View(t).length
              \/ Slots = 1 /\ Receiving(op[t]) /\ View(t).length <= chan.length
           /\ View(t) \in [capacity : DOMAIN Ops, length : 0 .. Slots, head : Index, closed : BOOLEAN]
  <1>1. chan \in [capacity : {chan.capacity}, length : 0 .. Slots, head : Index, closed : BOOLEAN]
    BY DEF IInv, TypeInv, TypeOK
  <1>2. copy[t] \in [capacity : {chan.capacity}, length : 0 .. Slots, head : Index, closed : BOOLEAN]
    BY DEF IInv, TypeInv
  <1>3. pc[t] = "lock" => Fresh(t) /\ toRead[t] = {}
    BY DEF IInv, CopiesFresh, Placed
  <1>4. pc[t] \in {"lock", "woken"}
    BY DEF CanStart, At
  <1>5. chan.capacity \in DOMAIN Ops
    BY DEF IInv, TypeInv, TypeOK
  <1> QED
    BY <1>1, <1>2, <1>3, <1>4, <1>5 DEF View, At, Fresh

\* The window is made of slots of the ring.
LEMMA WindowInRing ==
    ASSUME IInv
    PROVE  Window \subseteq Index
  <1>1. Slots \in Nat \ {0} /\ chan.head \in 0 .. Slots - 1 /\ chan.length \in 0 .. Slots
    BY SlotsFact DEF IInv, TypeInv, TypeOK, Index
  <1>2. \A k \in 0 .. chan.length - 1 : (chan.head + k) % Slots \in 0 .. Slots - 1
    <2> DEFINE h == chan.head
    <2>1. h \in 0 .. Slots - 1
      BY <1>1
    <2> HIDE DEF h
    <2>2. \A k \in 0 .. Slots - 1 : (h + k) % Slots \in 0 .. Slots - 1
      BY <1>1, <2>1, WindowPlaces
    <2> QED
      BY <1>1, <2>2 DEF h
  <1> QED
    BY <1>2 DEF Window, Index

\* The owners of a message can be counted.
LEMMA CountsFact ==
    ASSUME TypeInv, Owned, NEW m \in Messages
    PROVE  /\ IsFiniteSet(InSlots(m)) /\ Cardinality(InSlots(m)) \in Nat
           /\ IsFiniteSet(HeldBy(m)) /\ Cardinality(HeldBy(m)) \in Nat
           /\ IsFiniteSet(GotAt(m)) /\ Cardinality(GotAt(m)) \in Nat
           /\ Cardinality({m} \cap kept) = IF m \in kept THEN 1 ELSE 0
           /\ drops[m] \in Nat
           /\ Owners(m) = Cardinality(InSlots(m)) + Cardinality(HeldBy(m))
                          + Cardinality(GotAt(m)) + Cardinality({m} \cap kept) + drops[m]
  <1>1. Slots \in Nat \ {0}
    BY SlotsFact
  <1>2. IsFiniteSet(Index) /\ InSlots(m) \subseteq Index
    BY <1>1, FS_Interval DEF Index, InSlots
  <1>3. IsFiniteSet(DOMAIN got) /\ GotAt(m) \subseteq DOMAIN got
    <2>1. DOMAIN got = 1 .. Len(got) /\ Len(got) \in Nat
      BY DEF TypeInv
    <2> QED
      BY <2>1, FS_Interval DEF GotAt
  <1>4. IsFiniteSet(InSlots(m)) /\ IsFiniteSet(GotAt(m)) /\ IsFiniteSet(HeldBy(m))
    BY <1>2, <1>3, FS_Subset DEF Owned
  <1>5. Cardinality({m} \cap kept) = IF m \in kept THEN 1 ELSE 0
    <2>1. CASE m \in kept
      <3>1. {m} \cap kept = {m}
        BY <2>1
      <3> QED
        BY <2>1, <3>1, FS_Singleton
    <2>2. CASE m \notin kept
      <3>1. {m} \cap kept = {}
        BY <2>2
      <3> QED
        BY <2>2, <3>1, FS_EmptySet
    <2> QED
      BY <2>1, <2>2
  <1>6. drops[m] \in Nat
    BY DEF TypeInv
  <1> QED
    BY <1>4, <1>5, <1>6, FS_CardinalityType DEF Owners, InSlots, HeldBy, GotAt

\* A step that moves no message keeps every owner.
LEMMA OwnedStays ==
    ASSUME Owned, UNCHANGED <<got, kept, drops, next>>,
           \A m \in Messages : InSlots(m)' = InSlots(m) /\ HeldBy(m)' = HeldBy(m)
    PROVE  Owned'
  BY DEF Owned, Owners, InSlots, HeldBy, GotAt

\* A step that changes no shared value and touches no message of its thread.
LEMMA QuietOwned ==
    ASSUME IInv, UNCHANGED <<shared, history, message>>,
           \A t \in Threads : pc[t] = "commitSend" <=> pc'[t] = "commitSend"
    PROVE  Owned'
  <1>1. \A m : InSlots(m)' = InSlots(m)
    BY DEF InSlots, shared, Index, Slots, Unbuffered
  <1>2. \A m : HeldBy(m)' = HeldBy(m)
    BY DEF HeldBy, At
  <1> QED
    BY <1>1, <1>2, OwnedStays DEF IInv, history

\* The empty channel.
LEMMA InitInv == Init => IInv
  <1> SUFFICES ASSUME Init PROVE IInv
    OBVIOUS
  <1>1. PICK c \in DOMAIN Ops : chan = [capacity |-> c, length |-> 0, head |-> 0, closed |-> FALSE]
    BY DEF Init
  <1>2. c \in Nat /\ chan.capacity = c /\ chan.length = 0 /\ chan.head = 0 /\ chan.closed = FALSE
    BY <1>1, ChannelAssumption
  <1>3. Slots \in Nat \ {0} /\ 0 \in Index
    BY <1>2 DEF Slots, Unbuffered, Index
  <1>4. TypeInv
    <2>1. chan \in [capacity : DOMAIN Ops, length : 0 .. Slots, head : Index, closed : BOOLEAN]
      BY <1>1, <1>3
    <2>2. chan \in [capacity : {chan.capacity}, length : 0 .. Slots, head : Index, closed : BOOLEAN]
      BY <2>1
    <2>3. next \in 1 .. MaxSends + 1
      BY ChannelAssumption DEF Init
    <2>4. TypeOK
      BY <2>1, <2>3, <1>3 DEF Init, TypeOK
    <2> QED
      BY <2>2, <2>4 DEF Init, TypeInv, Operations
  <1>5. Placed
    BY ChannelAssumption DEF Init, Placed, Inside
  <1>6. CopiesFresh
    BY DEF Init, CopiesFresh
  <1>7. Ring
    <2>1. Window = {}
      BY <1>2 DEF Window
    <2> QED
      BY <2>1 DEF Init, Ring, InFlight
  <1>8. Owned
    <2> SUFFICES ASSUME NEW m \in Messages
                 PROVE  IsFiniteSet(HeldBy(m)) /\ Owners(m) = IF m < next THEN 1 ELSE 0
      BY DEF Owned
    <2>1. m \in Nat \ {0} /\ next = 1
      BY ChannelAssumption DEF Messages, Init
    <2>2. InSlots(m) = {} /\ HeldBy(m) = {} /\ GotAt(m) = {} /\ {m} \cap kept = {} /\ drops[m] = 0
      BY <2>1 DEF Init, InSlots, HeldBy, GotAt
    <2>3. Owners(m) = Cardinality(InSlots(m)) + Cardinality(HeldBy(m))
                      + Cardinality(GotAt(m)) + Cardinality({m} \cap kept) + drops[m]
      BY DEF Owners, InSlots, HeldBy, GotAt
    <2> QED
      BY <2>1, <2>2, <2>3, FS_EmptySet
  <1> QED
    BY <1>4, <1>5, <1>6, <1>7, <1>8 DEF IInv
-----------------------------------------------------------------------------
(* Every action preserves the invariant.                                     *)

\* Other threads move or keep their place: the copies they hold stay good as
\* long as nothing shared changes.
LEMMA CopiesStay ==
    ASSUME CopiesFresh, chan' = chan,
           \A t \in Threads : pc'[t] \in {"read", "lock"} =>
               /\ pc[t] \in {"read", "lock"}
               /\ copy'[t] = copy[t] /\ toRead'[t] = toRead[t] /\ op'[t] = op[t]
    PROVE  CopiesFresh'
  BY DEF CopiesFresh, Fresh, Slots, Unbuffered

\* Likewise for the ring, as long as nobody enters or leaves a critical section.
LEMMA RingStays ==
    ASSUME Ring, UNCHANGED <<chan, storage, initialized, handle>>,
           \A t \in Threads :
               /\ pc'[t] \in Inside \/ pc[t] \in Inside =>
                      pc'[t] = pc[t] /\ index'[t] = index[t] /\ message'[t] = message[t]
               /\ handle.destroyed => pc'[t] = "idle"
    PROVE  Ring'
  <1>1. Index' = Index /\ Slots' = Slots /\ Window' = Window /\ FreeSlot(chan)' = FreeSlot(chan)
    BY DEF Index, Slots, Unbuffered, Window, FreeSlot
  <1>2. \A i : InFlight(i)' <=> InFlight(i)
    BY DEF InFlight, Inside
  <1> QED
    BY <1>1, <1>2 DEF Ring, Inside

\* Entering an operation, or being turned away by the wrapper.
LEMMA StartInv ==
    ASSUME IInv, NEW t \in Threads, NEW o \in Calls(t), Start(t, o)
    PROVE  IInv'
  <1>1. /\ pc[t] = "idle" /\ o \in Operations
        /\ UNCHANGED <<chan, storage, initialized, handle, owner, readable, writable, copy, index, sent, got>>
        /\ Sending(o) => next \in Messages
        /\ next' = IF Sending(o) THEN next + 1 ELSE next
    <2>1. Sending(o) => next <= MaxSends
      BY DEF Start
    <2>2. next \in 1 .. MaxSends + 1 /\ MaxSends \in Nat
      BY ChannelAssumption DEF IInv, TypeInv, TypeOK
    <2>3. o \in Operations
      BY CallsFact DEF Start, IInv
    <2> QED
      BY <2>1, <2>2, <2>3 DEF Start, At, shared, Messages
  <1>2. next \in 1 .. MaxSends + 1 /\ next' \in 1 .. MaxSends + 1 /\ Messages \subseteq Nat \ {0}
    BY <1>1, ChannelAssumption DEF IInv, TypeInv, TypeOK, Messages
  <1>3. CASE Refused(o)
    <2>1. /\ UNCHANGED <<pc, op, toRead, message>>
          /\ drops' = IF o = "send" THEN [drops EXCEPT ![next] = @ + 1] ELSE drops
          /\ kept' = IF o = "trySend" THEN kept \cup {next} ELSE kept
      BY <1>3 DEF Start
    <2>2. TypeInv'
      <3>1. TypeOK'
        BY <1>1, <1>2, <2>1 DEF IInv, TypeInv, TypeOK, Slots, Unbuffered, Index
      <3>2. drops' \in [Messages -> Nat]
        BY <1>1, <2>1 DEF IInv, TypeInv, Sending
      <3>3. kept' \subseteq Messages
        BY <1>1, <2>1 DEF IInv, TypeInv, Sending
      <3>4. Slots' = Slots /\ Index' = Index
        BY <1>1 DEF Slots, Unbuffered, Index
      <3> QED
        BY <1>1, <2>1, <3>1, <3>2, <3>3, <3>4 DEF IInv, TypeInv
    <2>3. Placed'
      BY <1>1, <2>1 DEF IInv, Placed, Calls
    <2>4. CopiesFresh'
      BY <1>1, <2>1, CopiesStay DEF IInv
    <2>5. Ring'
      BY <1>1, <2>1, RingStays DEF IInv, Ring
    <2>6. Owned'
      <3>1. \A m : InSlots(m)' = InSlots(m) /\ HeldBy(m)' = HeldBy(m) /\ GotAt(m)' = GotAt(m)
        BY <1>1, <2>1 DEF InSlots, HeldBy, GotAt, At, Index, Slots, Unbuffered
      <3>2. CASE ~Sending(o)
        <4>1. UNCHANGED <<drops, kept, next>>
          BY <3>2, <1>1, <2>1 DEF Sending
        <4> QED
          BY <1>1, <3>1, <4>1, OwnedStays DEF IInv
      <3>3. CASE Sending(o)
        <4> SUFFICES ASSUME NEW m \in Messages
                     PROVE  IsFiniteSet(HeldBy(m))' /\ Owners(m)' = IF m < next' THEN 1 ELSE 0
          BY DEF Owned
        <4>1. /\ Owners(m)' = Cardinality(InSlots(m)) + Cardinality(HeldBy(m))
                     + Cardinality(GotAt(m)) + Cardinality({m} \cap kept') + drops'[m]
              /\ Owners(m) = IF m < next THEN 1 ELSE 0
              /\ IsFiniteSet(HeldBy(m))'
          BY <3>1 DEF IInv, Owned, Owners, InSlots, HeldBy, GotAt
        <4>2. CASE m # next
          <5>1. drops'[m] = drops[m] /\ {m} \cap kept' = {m} \cap kept
            BY <2>1, <4>2 DEF IInv, TypeInv
          <5>2. m < next' <=> m < next
            BY <1>1, <1>2, <3>3, <4>2
          <5> QED
            BY <4>1, <5>1, <5>2, CountsFact DEF IInv
        <4>3. CASE m = next
          <5>1. Owners(m) = 0 /\ m < next'
            BY <1>1, <1>2, <3>3, <4>1, <4>3
          <5>2. CASE o = "send"
            <6>1. drops'[m] = drops[m] + 1 /\ {m} \cap kept' = {m} \cap kept
              BY <2>1, <4>3, <5>2 DEF IInv, TypeInv
            <6>2. Cardinality({m} \cap kept') = Cardinality({m} \cap kept)
              BY <6>1
            <6>4. /\ Cardinality(InSlots(m)) \in Nat /\ Cardinality(HeldBy(m)) \in Nat
                  /\ Cardinality(GotAt(m)) \in Nat /\ Cardinality({m} \cap kept) \in Nat
                  /\ drops[m] \in Nat
                  /\ Owners(m) = Cardinality(InSlots(m)) + Cardinality(HeldBy(m))
                          + Cardinality(GotAt(m)) + Cardinality({m} \cap kept) + drops[m]
              BY CountsFact DEF IInv
            <6>3. Owners(m)' = Owners(m) + 1
              BY <4>1, <6>1, <6>2, <6>4
            <6> QED
              BY <4>1, <5>1, <6>3
          <5>3. CASE o = "trySend"
            <6>1. drops' = drops /\ {m} \cap kept' = {m}
              BY <2>1, <4>3, <5>3
            <6>2. m \notin kept /\ Cardinality({m} \cap kept) = 0
              BY <5>1, CountsFact DEF IInv
            <6>3. Cardinality({m} \cap kept') = 1
              BY <6>1, FS_Singleton
            <6> QED
              BY <4>1, <5>1, <6>1, <6>2, <6>3, CountsFact DEF IInv
          <5> QED
            BY <3>3, <5>2, <5>3 DEF Sending
        <4> QED
          BY <4>2, <4>3
      <3> QED
        BY <3>2, <3>3
    <2> QED
      BY <2>2, <2>3, <2>4, <2>5, <2>6 DEF IInv
  <1>4. CASE ~Refused(o)
    <2>1. /\ UNCHANGED <<drops, kept>>
          /\ pc' = [pc EXCEPT ![t] = "read"]
          /\ op' = [op EXCEPT ![t] = o]
          /\ toRead' = [toRead EXCEPT ![t] = Fields]
          /\ message' = [message EXCEPT ![t] = IF Sending(o) THEN next ELSE 0]
          /\ ~handle.destroyed
      BY <1>4 DEF Start, Goto, Refused
    <2>2. TypeInv'
      BY <1>1, <1>2, <2>1 DEF IInv, TypeInv, TypeOK, Slots, Unbuffered, Index
    <2>3. Placed'
      <3>1. Sending(o) <=> (IF Sending(o) THEN next ELSE 0) # 0
        BY <1>2
      <3> QED
        BY <1>1, <2>1, <3>1 DEF IInv, TypeInv, TypeOK, Placed, Calls, Inside
    <2>4. CopiesFresh'
      <3> SUFFICES ASSUME NEW u \in Threads, pc'[u] \in {"read", "lock"} PROVE Fresh(u)'
        BY DEF CopiesFresh
      <3>1. CASE u = t
        BY <2>1, <3>1 DEF Fresh, Fields, IInv, TypeInv, TypeOK
      <3>2. CASE u # t
        BY <1>1, <2>1, <3>2 DEF Fresh, CopiesFresh, IInv, TypeInv, TypeOK, Slots, Unbuffered
      <3> QED
        BY <3>1, <3>2
    <2>5. Ring'
      <3>1. \A u \in Threads : pc'[u] = IF u = t THEN "read" ELSE pc[u]
        BY <2>1 DEF IInv, TypeInv, TypeOK
      <3>2. \A u \in Threads : u # t => message'[u] = message[u]
        BY <2>1 DEF IInv, TypeInv, TypeOK
      <3> QED
        BY <1>1, <2>1, <3>1, <3>2, RingStays DEF IInv, Inside
    <2>6. Owned'
      <3>1. \A m : InSlots(m)' = InSlots(m) /\ GotAt(m)' = GotAt(m)
        BY <1>1, <2>1 DEF InSlots, GotAt, Index, Slots, Unbuffered
      <3>2. message[t] = 0
        BY <1>1 DEF IInv, Placed
      <3>3. \A m \in Messages : HeldBy(m)' =
                IF Sending(o) /\ m = next THEN HeldBy(m) \cup {t} ELSE HeldBy(m)
        BY <1>1, <1>2, <2>1, <3>2 DEF HeldBy, At, IInv, TypeInv, TypeOK
      <3>4. t \notin HeldBy(next)
        BY <1>2, <3>2 DEF HeldBy
      <3> SUFFICES ASSUME NEW m \in Messages
                   PROVE  IsFiniteSet(HeldBy(m))' /\ Owners(m)' = IF m < next' THEN 1 ELSE 0
        BY DEF Owned
      <3>5. /\ Owners(m)' = Cardinality(InSlots(m)) + Cardinality(HeldBy(m)')
                   + Cardinality(GotAt(m)) + Cardinality({m} \cap kept) + drops[m]
            /\ Owners(m) = IF m < next THEN 1 ELSE 0
            /\ IsFiniteSet(HeldBy(m))
        BY <2>1, <3>1 DEF IInv, Owned, Owners, InSlots, HeldBy, GotAt
      <3>6. CASE Sending(o) /\ m = next
        <4>1. IsFiniteSet(HeldBy(m)') /\ Cardinality(HeldBy(m)') = Cardinality(HeldBy(m)) + 1
          BY <3>3, <3>4, <3>5, <3>6, CountAdd
        <4>2. Owners(m) = 0 /\ m < next'
          BY <1>1, <1>2, <3>5, <3>6
        <4> QED
          BY <3>5, <4>1, <4>2, CountsFact DEF IInv
      <3>7. CASE ~(Sending(o) /\ m = next)
        <4>1. m < next' <=> m < next
          BY <1>1, <1>2, <3>7
        <4> QED
          BY <3>3, <3>5, <3>7, <4>1, CountsFact DEF IInv
      <3> QED
        BY <3>6, <3>7
    <2> QED
      BY <2>2, <2>3, <2>4, <2>5, <2>6 DEF IInv
  <1> QED
    BY <1>3, <1>4

\* channelRead copies a field as it is now.
LEMMA ReadFieldInv ==
    ASSUME IInv, NEW t \in Threads, NEW f \in Fields, ReadField(t, f)
    PROVE  IInv'
  <1>1. /\ pc[t] = "read" /\ f \in toRead[t]
        /\ copy' = [copy EXCEPT ![t][f] = chan[f]]
        /\ toRead' = [toRead EXCEPT ![t] = @ \ {f}]
        /\ pc' = [pc EXCEPT ![t] = IF toRead[t] = {f} THEN "lock" ELSE "read"]
        /\ UNCHANGED <<chan, storage, initialized, handle, owner, readable, writable, op, index, message,
                       sent, got, kept, drops, next>>
    BY DEF ReadField, At, Goto, shared, history, IInv, TypeInv, TypeOK
  <1>2. chan \in [capacity : {chan.capacity}, length : 0 .. Slots, head : Index, closed : BOOLEAN]
    BY DEF IInv, TypeInv, TypeOK
  <1>3. \A u \in Threads : copy'[u] = IF u = t THEN [copy[t] EXCEPT ![f] = chan[f]] ELSE copy[u]
    BY <1>1 DEF IInv, TypeInv
  <1>4. copy'[t] \in [capacity : {chan.capacity}, length : 0 .. Slots, head : Index, closed : BOOLEAN]
    <2>1. copy[t] \in [capacity : {chan.capacity}, length : 0 .. Slots, head : Index, closed : BOOLEAN]
      BY DEF IInv, TypeInv
    <2> QED
      BY <1>2, <1>3, <2>1 DEF Fields
  <1>5. TypeInv'
    <2>1. TypeOK'
      BY <1>1 DEF IInv, TypeInv, TypeOK, Slots, Unbuffered, Index
    <2>2. copy' \in [Threads -> [capacity : {chan.capacity}, length : 0 .. Slots, head : Index, closed : BOOLEAN]]
      BY <1>1, <1>3, <1>4 DEF IInv, TypeInv
    <2> QED
      BY <1>1, <2>1, <2>2 DEF IInv, TypeInv, Slots, Unbuffered, Index
  <1>6. Placed'
    BY <1>1 DEF IInv, TypeInv, TypeOK, Placed, Calls, Inside
  <1>7. CopiesFresh'
    <2> SUFFICES ASSUME NEW u \in Threads, pc'[u] \in {"read", "lock"} PROVE Fresh(u)'
      BY DEF CopiesFresh
    <2>1. CASE u = t
      <3>1. Fresh(t)
        BY <1>1 DEF IInv, CopiesFresh
      <3>2. copy[t] \in [capacity : {chan.capacity}, length : 0 .. Slots, head : Index, closed : BOOLEAN]
        BY DEF IInv, TypeInv
      <3>3. toRead'[t] = toRead[t] \ {f} /\ copy'[t] = [copy[t] EXCEPT ![f] = chan[f]]
        BY <1>1, <1>3 DEF IInv, TypeInv, TypeOK
      <3> QED
        BY <1>1, <2>1, <3>1, <3>2, <3>3 DEF Fresh, Fields, Slots, Unbuffered
    <2>2. CASE u # t
      BY <1>1, <1>3, <2>2 DEF Fresh, CopiesFresh, IInv, TypeInv, TypeOK, Slots, Unbuffered
    <2> QED
      BY <2>1, <2>2
  <1>8. Ring'
    <2>1. \A u \in Threads : pc'[u] = pc[u] \/ (u = t /\ pc[u] = "read" /\ pc'[u] = "lock")
      BY <1>1 DEF IInv, TypeInv, TypeOK
    <2>2. ~handle.destroyed
      BY <1>1 DEF IInv, Ring
    <2> QED
      BY <1>1, <2>1, <2>2, RingStays DEF IInv, Inside
  <1>9. Owned'
    BY <1>1, QuietOwned DEF shared, history, IInv, TypeInv, TypeOK
  <1> QED
    BY <1>5, <1>6, <1>7, <1>8, <1>9 DEF IInv
\* The critical section of a send: wait, refuse, or keep a free slot.
LEMMA SendBeginInv ==
    ASSUME IInv, NEW t \in Threads, SendIndexBegin(t)
    PROVE  IInv'
  <1> DEFINE c == View(t)
  <1>1. /\ CanStart(t) /\ pc[t] \in {"lock", "woken"} /\ owner = NoThread
        /\ Sending(op[t])
        /\ copy' = [copy EXCEPT ![t] = c]
        /\ UNCHANGED <<chan, storage, initialized, handle, readable, op, toRead, sent, got, next>>
    BY DEF SendIndexBegin, CanStart, At, shared
  <1>2. /\ c \in [capacity : {chan.capacity}, length : 0 .. Slots, head : Index, closed : BOOLEAN]
        /\ c.capacity = chan.capacity /\ c.head = chan.head /\ c.closed = chan.closed
        /\ c.length = chan.length \/ (Slots = 1 /\ chan.length <= c.length)
    BY <1>1, ViewFact DEF Sending, Receiving
  <1>3. \A u \in Threads : pc[u] \notin Inside /\ u # NoThread
    BY <1>1, ChannelAssumption DEF IInv, Placed
  <1>4. message[t] \in Messages /\ message[t] # 0 /\ Messages \subseteq Nat \ {0} /\ ~handle.destroyed
    <2>1. message[t] # 0 /\ ~handle.destroyed
      BY <1>1 DEF IInv, Placed, Ring
    <2> QED
      BY <2>1 DEF IInv, TypeInv, TypeOK, Messages
  <1>5. Slots' = Slots /\ Index' = Index /\ Slots \in Nat \ {0}
    BY <1>1, SlotsFact DEF IInv, Slots, Unbuffered, Index
  <1> HIDE DEF c
  <1>6. CASE /\ writable' = writable \cup {t}
             /\ pc' = [pc EXCEPT ![t] = "waitWritable"]
             /\ UNCHANGED <<owner, index, message, drops, kept>>
    <2>1. TypeInv'
      <3>1. TypeOK'
        BY <1>1, <1>5, <1>6 DEF IInv, TypeInv, TypeOK
      <3> QED
        BY <1>1, <1>2, <1>5, <1>6, <3>1 DEF IInv, TypeInv
    <2>2. \A u \in Threads : pc'[u] = IF u = t THEN "waitWritable" ELSE pc[u]
      BY <1>6 DEF IInv, TypeInv, TypeOK
    <2>3. \A u \in Threads : u # t => copy'[u] = copy[u]
      BY <1>1 DEF IInv, TypeInv
    <2>4. Placed'
      BY <1>1, <1>4, <1>6, <2>2 DEF IInv, Placed, Calls, Inside
    <2>5. CopiesFresh'
      BY <1>1, <2>2, <2>3, CopiesStay DEF IInv
    <2>6. Ring'
      BY <1>1, <1>3, <1>4, <1>6, <2>2, RingStays DEF IInv, Inside
    <2>7. Owned'
      BY <1>1, <1>3, <1>6, <2>2, QuietOwned DEF shared, history, Inside
    <2> QED
      BY <2>1, <2>4, <2>5, <2>6, <2>7 DEF IInv
  <1>7. CASE Refuse(t) /\ UNCHANGED <<writable, index>>
    <2> DEFINE m0 == message[t]
    <2>1. /\ drops' = IF op[t] = "send" THEN [drops EXCEPT ![m0] = @ + 1] ELSE drops
          /\ kept' = IF op[t] = "trySend" THEN kept \cup {m0} ELSE kept
          /\ message' = [message EXCEPT ![t] = 0]
          /\ pc' = [pc EXCEPT ![t] = "idle"]
          /\ owner' = owner
      BY <1>7 DEF Refuse, Goto
    <2>2. TypeInv'
      <3>1. TypeOK'
        BY <1>1, <1>5, <1>7, <2>1 DEF IInv, TypeInv, TypeOK
      <3>2. drops' \in [Messages -> Nat]
        <4>1. m0 \in Messages /\ drops \in [Messages -> Nat]
          BY <1>4 DEF IInv, TypeInv
        <4> HIDE DEF m0
        <4> QED
          BY <2>1, <4>1
      <3>3. kept' \subseteq Messages
        BY <1>4, <2>1 DEF IInv, TypeInv
      <3> QED
        BY <1>1, <1>2, <1>5, <2>1, <3>1, <3>2, <3>3 DEF IInv, TypeInv
    <2>3. \A u \in Threads : /\ pc'[u] = IF u = t THEN "idle" ELSE pc[u]
                             /\ message'[u] = IF u = t THEN 0 ELSE message[u]
      BY <2>1 DEF IInv, TypeInv, TypeOK
    <2>4. \A u \in Threads : u # t => copy'[u] = copy[u]
      BY <1>1 DEF IInv, TypeInv
    <2>5. Placed'
      BY <1>1, <1>3, <2>1, <2>3 DEF IInv, Placed, Calls, Inside
    <2>6. CopiesFresh'
      BY <1>1, <2>3, <2>4, CopiesStay DEF IInv
    <2>7. Ring'
      BY <1>1, <1>3, <1>4, <1>7, <2>3, RingStays DEF IInv, Inside
    <2>8. Owned'
      <3>1. \A m : InSlots(m)' = InSlots(m) /\ GotAt(m)' = GotAt(m)
        BY <1>1, <1>5 DEF InSlots, GotAt
      <3>2. \A m \in Messages : HeldBy(m)' = IF m = m0 THEN HeldBy(m) \ {t} ELSE HeldBy(m)
        BY <1>4, <2>3, <1>3 DEF HeldBy, At, Inside
      <3>3. t \in HeldBy(m0)
        BY <1>1 DEF HeldBy, At
      <3> HIDE DEF m0
      <3> SUFFICES ASSUME NEW m \in Messages
                   PROVE  IsFiniteSet(HeldBy(m))' /\ Owners(m)' = IF m < next' THEN 1 ELSE 0
        BY DEF Owned
      <3>4. /\ Owners(m)' = Cardinality(InSlots(m)) + Cardinality(HeldBy(m)')
                   + Cardinality(GotAt(m)) + Cardinality({m} \cap kept') + drops'[m]
            /\ Owners(m) = IF m < next THEN 1 ELSE 0
            /\ IsFiniteSet(HeldBy(m))
        BY <3>1 DEF IInv, Owned, Owners, InSlots, HeldBy, GotAt
      <3>5. /\ Cardinality(InSlots(m)) \in Nat /\ Cardinality(HeldBy(m)) \in Nat
            /\ Cardinality(GotAt(m)) \in Nat /\ Cardinality({m} \cap kept) \in Nat
            /\ drops[m] \in Nat
            /\ Owners(m) = Cardinality(InSlots(m)) + Cardinality(HeldBy(m))
                  + Cardinality(GotAt(m)) + Cardinality({m} \cap kept) + drops[m]
            /\ m \in kept => Cardinality({m} \cap kept) = 1
            /\ m \notin kept => Cardinality({m} \cap kept) = 0
        BY CountsFact DEF IInv
      <3>6. CASE m # m0
        <4>1. drops'[m] = drops[m] /\ {m} \cap kept' = {m} \cap kept
          BY <2>1, <3>6 DEF IInv, TypeInv
        <4>2. Cardinality({m} \cap kept') = Cardinality({m} \cap kept) /\ HeldBy(m)' = HeldBy(m)
          BY <3>2, <3>6, <4>1
        <4> QED
          BY <1>1, <3>4, <3>5, <4>1, <4>2
      <3>7. CASE m = m0
        <4>1. /\ IsFiniteSet(HeldBy(m)') /\ Cardinality(HeldBy(m)) \in Nat \ {0}
              /\ Cardinality(HeldBy(m)') = Cardinality(HeldBy(m)) - 1
          BY <3>2, <3>3, <3>4, <3>7, CountRemove
        <4>2. CASE op[t] = "send"
          <5>1. drops'[m] = drops[m] + 1 /\ {m} \cap kept' = {m} \cap kept
            BY <2>1, <3>7, <4>2 DEF IInv, TypeInv
          <5>2. Cardinality({m} \cap kept') = Cardinality({m} \cap kept)
            BY <5>1
          <5> QED
            BY <1>1, <3>4, <3>5, <4>1, <5>1, <5>2
        <4>3. CASE op[t] = "trySend"
          <5>1. drops' = drops /\ {m} \cap kept' = {m}
            BY <2>1, <3>7, <4>3
          <5>2. m \notin kept
            BY <3>4, <3>5, <4>1
          <5>3. Cardinality({m} \cap kept') = 1
            BY <5>1, FS_Singleton
          <5> QED
            BY <1>1, <3>4, <3>5, <4>1, <5>1, <5>2, <5>3
        <4> QED
          BY <1>1, <4>2, <4>3 DEF Sending
      <3> QED
        BY <3>6, <3>7
    <2> QED
      BY <2>2, <2>5, <2>6, <2>7, <2>8 DEF IInv
  <1>8. CASE /\ ~c.closed /\ ~AtCapacity(c)
             /\ owner' = t
             /\ index' = [index EXCEPT ![t] = FreeSlot(c)]
             /\ pc' = [pc EXCEPT ![t] = "store"]
             /\ UNCHANGED <<writable, message, drops, kept>>
    <2>1. c.length < Slots /\ c.length = chan.length /\ ~chan.closed
      BY <1>2, <1>5, <1>8 DEF AtCapacity, IInv, TypeInv, TypeOK
    <2>2. FreeSlot(c) = FreeSlot(chan) /\ FreeSlot(chan) \in Index
      <3>1. FreeSlot(c) = FreeSlot(chan)
        BY <1>2, <2>1 DEF FreeSlot
      <3>2. chan.head \in 0 .. Slots - 1 /\ chan.length \in 0 .. Slots - 1
        BY <1>5, <2>1 DEF IInv, TypeInv, TypeOK, Index
      <3> QED
        BY <1>5, <3>1, <3>2, WindowGrows DEF FreeSlot, Index
    <2>3. TypeInv'
      <3>1. TypeOK'
        BY <1>1, <1>5, <1>8, <2>2 DEF IInv, TypeInv, TypeOK
      <3> QED
        BY <1>1, <1>2, <1>5, <1>8, <3>1 DEF IInv, TypeInv
    <2>4. \A u \in Threads : /\ pc'[u] = IF u = t THEN "store" ELSE pc[u]
                             /\ index'[u] = IF u = t THEN FreeSlot(chan) ELSE index[u]
      BY <1>8, <2>2 DEF IInv, TypeInv, TypeOK
    <2>5. \A u \in Threads : u # t => copy'[u] = copy[u]
      BY <1>1 DEF IInv, TypeInv
    <2>6. Placed'
      BY <1>1, <1>3, <1>4, <1>8, <2>4 DEF IInv, Placed, Calls, Inside
    <2>7. CopiesFresh'
      BY <1>1, <2>4, <2>5, CopiesStay DEF IInv
    <2>8. Ring'
      <3>1. Window' = Window /\ FreeSlot(chan)' = FreeSlot(chan)
        BY <1>1, <1>5 DEF Window, FreeSlot
      <3>2. \A i : InFlight(i)' <=> InFlight(i)
        BY <1>3, <2>4 DEF InFlight, Inside
      <3> QED
        BY <1>1, <1>3, <1>4, <1>5, <1>8, <2>1, <2>4, <3>1, <3>2 DEF IInv, Ring, Inside
    <2>9. Owned'
      BY <1>1, <1>3, <1>8, <2>4, QuietOwned DEF shared, history, Inside
    <2> QED
      BY <2>3, <2>6, <2>7, <2>8, <2>9 DEF IInv
  <1> QED
    BY <1>6, <1>7, <1>8 DEF SendIndexBegin, c, Goto

\* The message goes from the sender into the slot, which owned nothing.
LEMMA StoreInv ==
    ASSUME IInv, NEW t \in Threads, Store(t)
    PROVE  IInv'
  <1> DEFINE m0 == message[t]
  <1> DEFINE i0 == index[t]
  <1>1. /\ pc[t] = "store"
        /\ storage' = [storage EXCEPT ![i0] = m0]
        /\ initialized' = [initialized EXCEPT ![i0] = TRUE]
        /\ drops' = IF initialized[i0] THEN [drops EXCEPT ![storage[i0]] = @ + 1] ELSE drops
        /\ pc' = [pc EXCEPT ![t] = "commitSend"]
        /\ UNCHANGED <<chan, handle, owner, readable, writable, op, copy, toRead, index, message,
                       sent, got, kept, next>>
    BY DEF Store, StoreElement, At, Goto, local
  <1>2. Slots' = Slots /\ Index' = Index /\ Slots \in Nat \ {0}
        /\ Window' = Window /\ FreeSlot(chan)' = FreeSlot(chan)
    BY <1>1, SlotsFact DEF IInv, Slots, Unbuffered, Index, Window, FreeSlot
  <1>3. owner = t /\ \A u \in Threads : u # t => pc[u] \notin Inside
    BY <1>1 DEF IInv, Placed, Inside
  <1>4. i0 \in Index /\ m0 \in Messages /\ m0 # 0 /\ ~handle.destroyed
    <2>1. m0 # 0 /\ ~handle.destroyed
      BY <1>1 DEF IInv, Placed, Ring
    <2> QED
      BY <2>1 DEF IInv, TypeInv, TypeOK
  <1>5. i0 \notin Window
    <2>1. chan.head \in 0 .. Slots - 1 /\ chan.length \in 0 .. Slots - 1 /\ i0 = (chan.head + chan.length) % Slots
      BY <1>1, <1>2 DEF IInv, TypeInv, TypeOK, Ring, Index, FreeSlot
    <2>2. (chan.head + chan.length) % Slots \notin From(Slots, chan.head, chan.length)
      BY <1>2, <2>1, WindowGrows
    <2>3. Window = From(Slots, chan.head, chan.length)
      BY SlotsFact DEF IInv
    <2> QED
      BY <2>1, <2>2, <2>3
  <1>6. ~initialized[i0]
    <2>1. ~InFlight(i0)
      BY <1>1, <1>3 DEF InFlight, Inside
    <2> QED
      BY <1>4, <1>5, <2>1 DEF IInv, Ring
  <1>7. drops' = drops
    BY <1>1, <1>6
  <1>8. \A u \in Threads : pc'[u] = IF u = t THEN "commitSend" ELSE pc[u]
    BY <1>1 DEF IInv, TypeInv, TypeOK
  <1>9. \A i \in Index : /\ storage'[i] = IF i = i0 THEN m0 ELSE storage[i]
                         /\ initialized'[i] = IF i = i0 THEN TRUE ELSE initialized[i]
    BY <1>1, <1>4 DEF IInv, TypeInv, TypeOK
  <1>10. TypeInv'
    <2>1. TypeOK'
      BY <1>1, <1>2, <1>4 DEF IInv, TypeInv, TypeOK
    <2> QED
      BY <1>1, <1>2, <1>7, <2>1 DEF IInv, TypeInv
  <1>11. Placed'
    BY <1>1, <1>8 DEF IInv, Placed, Calls, Inside, Sending
  <1>12. CopiesFresh'
    BY <1>1, <1>8, CopiesStay DEF IInv
  <1>13. Ring'
    <2>1. \A i : InFlight(i)' <=> i = i0
      BY <1>1, <1>3, <1>8 DEF InFlight, Inside
    <2>2. \A i : ~InFlight(i)
      BY <1>1, <1>3 DEF InFlight, Inside
    <2>3. \A i \in Index : initialized'[i] <=> (i \in Window \/ i = i0)
      BY <1>4, <1>9, <2>2 DEF IInv, Ring
    <2>4. \A i \in Index : initialized'[i] => storage'[i] # 0
      BY <1>4, <1>9 DEF IInv, Ring
    <2>5. \A u \in Threads :
              /\ pc'[u] \in {"store", "commitSend"} =>
                    ~chan.closed /\ chan.length < Slots /\ index[u] = FreeSlot(chan)
              /\ pc'[u] = "commitSend" => storage'[index[u]] = message[u]
              /\ pc'[u] = "take" => index[u] \notin Window
      <3> SUFFICES ASSUME NEW u \in Threads, pc'[u] \in Inside
                   PROVE  /\ ~chan.closed /\ chan.length < Slots /\ index[u] = FreeSlot(chan)
                          /\ pc'[u] = "commitSend" /\ storage'[index[u]] = message[u]
        BY DEF Inside
      <3>1. u = t
        BY <1>3, <1>8
      <3>2. ~chan.closed /\ chan.length < Slots /\ index[t] = FreeSlot(chan)
        BY <1>1 DEF IInv, Ring
      <3> QED
        BY <1>4, <1>8, <1>9, <3>1, <3>2
    <2> QED
      BY <1>1, <1>2, <1>4, <2>1, <2>3, <2>4, <2>5 DEF Ring
  <1>14. Owned'
    <2>1. \A m \in Messages : /\ InSlots(m)' = IF m = m0 THEN InSlots(m) \cup {i0} ELSE InSlots(m)
                              /\ HeldBy(m)' = IF m = m0 THEN HeldBy(m) \ {t} ELSE HeldBy(m)
                              /\ GotAt(m)' = GotAt(m)
      <3>1. \A m : GotAt(m)' = GotAt(m)
        BY <1>1 DEF GotAt
      <3>2. \A m \in Messages : InSlots(m)' = IF m = m0 THEN InSlots(m) \cup {i0} ELSE InSlots(m)
        BY <1>2, <1>4, <1>6, <1>9 DEF InSlots
      <3>3. \A m \in Messages : HeldBy(m)' = IF m = m0 THEN HeldBy(m) \ {t} ELSE HeldBy(m)
        BY <1>1, <1>8 DEF HeldBy, At
      <3> QED
        BY <3>1, <3>2, <3>3
    <2>2. i0 \notin InSlots(m0) /\ t \in HeldBy(m0)
      BY <1>1, <1>6 DEF InSlots, HeldBy, At
    <2> HIDE DEF m0, i0
    <2> SUFFICES ASSUME NEW m \in Messages
                 PROVE  IsFiniteSet(HeldBy(m))' /\ Owners(m)' = IF m < next' THEN 1 ELSE 0
      BY DEF Owned
    <2>3. /\ Owners(m)' = Cardinality(InSlots(m)') + Cardinality(HeldBy(m)')
                 + Cardinality(GotAt(m)) + Cardinality({m} \cap kept) + drops[m]
          /\ Owners(m) = IF m < next THEN 1 ELSE 0
          /\ IsFiniteSet(HeldBy(m))
      BY <1>1, <1>7, <2>1 DEF IInv, Owned, Owners, InSlots, HeldBy, GotAt
    <2>4. /\ Cardinality(InSlots(m)) \in Nat /\ Cardinality(HeldBy(m)) \in Nat /\ IsFiniteSet(InSlots(m))
          /\ Cardinality(GotAt(m)) \in Nat /\ Cardinality({m} \cap kept) \in Nat
          /\ drops[m] \in Nat
          /\ Owners(m) = Cardinality(InSlots(m)) + Cardinality(HeldBy(m))
                + Cardinality(GotAt(m)) + Cardinality({m} \cap kept) + drops[m]
      BY CountsFact DEF IInv
    <2>5. CASE m # m0
      BY <1>1, <2>1, <2>3, <2>4, <2>5
    <2>6. CASE m = m0
      <3>1. IsFiniteSet(HeldBy(m)') /\ Cardinality(HeldBy(m)') = Cardinality(HeldBy(m)) - 1
        BY <2>1, <2>2, <2>3, <2>6, CountRemove
      <3>2. Cardinality(InSlots(m)') = Cardinality(InSlots(m)) + 1
        BY <2>1, <2>2, <2>4, <2>6, CountAdd
      <3> QED
        BY <1>1, <2>3, <2>4, <3>1, <3>2
    <2> QED
      BY <2>5, <2>6
  <1> QED
    BY <1>10, <1>11, <1>12, <1>13, <1>14 DEF IInv
\* Two threads that are both inside an operation.
LEMMA OtherThread ==
    ASSUME Disciplined, IInv, NEW t \in Threads, NEW u \in Threads, t # u,
           pc[t] # "idle", pc[u] # "idle"
    PROVE  /\ Slots = 1
           /\ Sending(op[t]) => Receiving(op[u])
           /\ Receiving(op[t]) => Sending(op[u])
           /\ op[t] # "close"
  <1>1. op[t] \in Calls(t) /\ op[u] \in Calls(u)
    BY DEF IInv, Placed
  <1> QED
    BY <1>1, TwoThreads DEF IInv, Sends, Receives, Sending, Receiving

\* The commit publishes the slot; the receiver around one slot may think it empty.
LEMMA CommitInv ==
    ASSUME Disciplined, IInv, NEW t \in Threads, SendIndexCommit(t)
    PROVE  IInv'
  <1> DEFINE n == chan.length
  <1>1. /\ pc[t] = "commitSend"
        /\ chan' = [chan EXCEPT !.length = @ + 1]
        /\ message' = [message EXCEPT ![t] = 0]
        /\ owner' = NoThread
        /\ \/ writable' = writable \cup {t} /\ pc' = [pc EXCEPT ![t] = "rendezvous"]
           \/ writable' = writable /\ pc' = [pc EXCEPT ![t] = "idle"]
        /\ readable' \subseteq readable
        /\ UNCHANGED <<storage, initialized, handle, op, copy, toRead, index, got, kept, drops, next>>
    BY DEF SendIndexCommit, At, Goto, Signal
  <1>2. /\ chan \in [capacity : DOMAIN Ops, length : 0 .. Slots, head : Index, closed : BOOLEAN]
        /\ Slots \in Nat \ {0} /\ Index = 0 .. Slots - 1
        /\ n \in 0 .. Slots - 1 /\ ~chan.closed /\ index[t] = (chan.head + n) % Slots
    <2>1. ~chan.closed /\ n < Slots /\ index[t] = (chan.head + n) % Slots
      BY <1>1 DEF IInv, Ring, FreeSlot
    <2>2. chan \in [capacity : DOMAIN Ops, length : 0 .. Slots, head : Index, closed : BOOLEAN]
      BY DEF IInv, TypeInv, TypeOK
    <2>3. Slots \in Nat \ {0}
      BY SlotsFact DEF IInv
    <2> QED
      BY <2>1, <2>2, <2>3 DEF Index
  <1>3. /\ chan'.capacity = chan.capacity /\ chan'.length = n + 1
        /\ chan'.head = chan.head /\ chan'.closed = chan.closed
        /\ chan' \in [capacity : DOMAIN Ops, length : 0 .. Slots, head : Index, closed : BOOLEAN]
    BY <1>1, <1>2
  <1>4. Slots' = Slots /\ Index' = Index
    BY <1>3 DEF Slots, Unbuffered, Index
  <1>5. owner = t /\ Sending(op[t]) /\ \A u \in Threads : u # t => pc[u] \notin Inside
    BY <1>1 DEF IInv, Placed, Inside
  <1>6. \A u \in Threads : /\ u # t => pc'[u] = pc[u]
                           /\ pc'[t] \in {"rendezvous", "idle"}
                           /\ message'[u] = IF u = t THEN 0 ELSE message[u]
    BY <1>1 DEF IInv, TypeInv, TypeOK
  <1>7. TypeInv'
    <2>1. TypeOK'
      BY <1>1, <1>3, <1>4 DEF IInv, TypeInv, TypeOK
    <2> QED
      BY <1>1, <1>3, <1>4, <2>1 DEF IInv, TypeInv
  <1>8. Placed'
    BY <1>1, <1>3, <1>5, <1>6, ChannelAssumption DEF IInv, Placed, Calls, Inside
  <1>9. CopiesFresh'
    <2> SUFFICES ASSUME NEW u \in Threads, pc'[u] \in {"read", "lock"} PROVE Fresh(u)'
      BY DEF CopiesFresh
    <2>1. u # t /\ Fresh(u) /\ pc[u] # "idle"
      BY <1>6 DEF IInv, CopiesFresh
    <2>2. Slots = 1 /\ Receiving(op[u])
      BY <1>1, <1>5, <2>1, OtherThread
    <2>3. copy[u].length \in 0 .. Slots
      BY DEF IInv, TypeInv
    <2>4. copy[u].length <= chan'.length
      BY <1>2, <1>3, <2>2, <2>3
    <2> QED
      BY <1>1, <1>3, <1>4, <2>1, <2>2, <2>4 DEF Fresh
  <1>10. Window' = Window \cup {index[t]} /\ index[t] \notin Window /\ index[t] \in Index
    <2>1. Window = From(Slots, chan.head, n) /\ chan.head \in 0 .. Slots - 1
      BY <1>2, SlotsFact DEF IInv
    <2>2. Window' = From(Slots, chan.head, n + 1)
      <3>1. Window' = {(chan'.head + k) % Slots' : k \in 0 .. chan'.length - 1}
        BY DEF Window
      <3> QED
        BY <1>3, <1>4, <3>1, Zenon DEF From
    <2>3. /\ (chan.head + n) % Slots \in 0 .. Slots - 1
          /\ (chan.head + n) % Slots \notin From(Slots, chan.head, n)
          /\ From(Slots, chan.head, n + 1) = From(Slots, chan.head, n) \cup {(chan.head + n) % Slots}
      <3> HIDE DEF n
      <3> QED
        BY <1>2, <2>1, WindowGrows
    <2> QED
      BY <1>2, <2>1, <2>2, <2>3
  <1>11. Ring'
    <2>1. \A i : ~InFlight(i)'
      BY <1>5, <1>6 DEF InFlight, Inside
    <2>2. \A i : InFlight(i) <=> i = index[t]
      BY <1>1, <1>5 DEF InFlight, Inside
    <2>3. ~handle.destroyed
      BY <1>1 DEF IInv, Ring
    <2>4. \A i \in Index : initialized[i] <=> i \in Window'
      BY <1>10, <2>2, <2>3 DEF IInv, Ring
    <2> QED
      BY <1>1, <1>4, <1>5, <1>6, <2>1, <2>3, <2>4 DEF IInv, Ring, Inside
  <1>12. Owned'
    <2>1. \A m \in Messages : HeldBy(m)' = HeldBy(m)
      <3>1. \A m \in Messages : m # 0
        BY ChannelAssumption DEF Messages
      <3> QED
        BY <1>1, <1>6, <3>1 DEF HeldBy, At
    <2>2. \A m \in Messages : InSlots(m)' = InSlots(m)
      BY <1>1, <1>4 DEF InSlots
    <2> QED
      BY <1>1, <2>1, <2>2, OwnedStays DEF IInv
  <1> QED
    BY <1>7, <1>8, <1>9, <1>11, <1>12 DEF IInv

\* Waiting for the message to be taken, waking up, and waking up for nothing.
LEMMA WaitInv ==
    ASSUME IInv, NEW t \in Threads, Rendezvous(t) \/ Wake(t) \/ SpuriousWake(t)
    PROVE  IInv'
  <1>1. /\ UNCHANGED <<chan, storage, initialized, handle, owner, op, copy, toRead, index, message,
                       sent, got, kept, drops, next>>
        /\ readable' \subseteq readable
        /\ writable' \subseteq writable \cup {t}
        /\ \/ pc' = pc
           \/ pc[t] = "rendezvous" /\ pc' = [pc EXCEPT ![t] = "idle"]
           \/ pc[t] \in {"waitWritable", "waitReadable"} /\ pc' = [pc EXCEPT ![t] = "woken"]
    BY DEF Rendezvous, Wake, SpuriousWake, At, Goto, shared, local, history
  <1>2. \A u \in Threads :
            \/ pc'[u] = pc[u]
            \/ u = t /\ pc[u] = "rendezvous" /\ pc'[u] = "idle"
            \/ u = t /\ pc[u] \in {"waitWritable", "waitReadable"} /\ pc'[u] = "woken"
    BY <1>1 DEF IInv, TypeInv, TypeOK
  <1>3. Slots' = Slots /\ Index' = Index
    BY <1>1 DEF Slots, Unbuffered, Index
  <1>4. TypeInv'
    <2>1. TypeOK'
      BY <1>1, <1>3 DEF IInv, TypeInv, TypeOK
    <2> QED
      BY <1>1, <1>3, <2>1 DEF IInv, TypeInv
  <1>5. Placed'
    BY <1>1, <1>2 DEF IInv, Placed, Calls, Inside, Sending, Receiving
  <1>6. CopiesFresh'
    BY <1>1, <1>2, CopiesStay DEF IInv
  <1>7. Ring'
    BY <1>1, <1>2, RingStays DEF IInv, Inside, Ring
  <1>8. Owned'
    <2>1. \A u \in Threads : pc[u] = "commitSend" <=> pc'[u] = "commitSend"
      BY <1>2
    <2> QED
      BY <1>1, <2>1, QuietOwned DEF shared, history
  <1> QED
    BY <1>4, <1>5, <1>6, <1>7, <1>8 DEF IInv
\* The critical section of a receive: wait, report nothing, or take the head off.
LEMMA ReceiveBeginInv ==
    ASSUME Disciplined, IInv, NEW t \in Threads, ReceiveIndexBegin(t)
    PROVE  IInv'
  <1> DEFINE c == View(t)
  <1>1. /\ CanStart(t) /\ pc[t] \in {"lock", "woken"} /\ owner = NoThread
        /\ Receiving(op[t])
        /\ UNCHANGED <<storage, initialized, handle, op, toRead, message, sent, got, kept, drops, next>>
    BY DEF ReceiveIndexBegin, CanStart, At, history
  <1>2. /\ c \in [capacity : DOMAIN Ops, length : 0 .. Slots, head : Index, closed : BOOLEAN]
        /\ c.capacity = chan.capacity /\ c.head = chan.head /\ c.closed = chan.closed
        /\ c.length = chan.length \/ (Slots = 1 /\ c.length <= chan.length)
        /\ c \in [capacity : {chan.capacity}, length : 0 .. Slots, head : Index, closed : BOOLEAN]
    BY <1>1, ViewFact DEF Sending, Receiving
  <1>3. \A u \in Threads : pc[u] \notin Inside /\ u # NoThread
    BY <1>1, ChannelAssumption DEF IInv, Placed
  <1>4. /\ message[t] = 0 /\ ~handle.destroyed
        /\ Slots \in Nat \ {0} /\ Index = 0 .. Slots - 1 /\ chan.length \in 0 .. Slots
    <2>1. pc[t] # "idle" /\ ~Sending(op[t])
      BY <1>1 DEF Sending, Receiving
    <2> QED
      BY <2>1, SlotsFact DEF IInv, Placed, Ring, TypeInv, TypeOK, Index
  <1> HIDE DEF c
  <1>5. ASSUME NEW place \in {"waitReadable", "idle"},
               UNCHANGED <<chan, owner, writable, index>>,
               readable' \subseteq readable \cup {t},
               copy' = [copy EXCEPT ![t] = c],
               pc' = [pc EXCEPT ![t] = place]
        PROVE  IInv'
    <2>1. Slots' = Slots /\ Index' = Index
      BY <1>5 DEF Slots, Unbuffered, Index
    <2>2. TypeInv'
      <3>1. TypeOK'
        BY <1>1, <1>5, <2>1 DEF IInv, TypeInv, TypeOK
      <3> QED
        BY <1>1, <1>2, <1>5, <2>1, <3>1 DEF IInv, TypeInv
    <2>3. \A u \in Threads : pc'[u] = IF u = t THEN place ELSE pc[u]
      BY <1>5 DEF IInv, TypeInv, TypeOK
    <2>4. \A u \in Threads : u # t => copy'[u] = copy[u]
      BY <1>5 DEF IInv, TypeInv
    <2>5. Placed'
      BY <1>1, <1>3, <1>4, <1>5, <2>3 DEF IInv, Placed, Calls, Inside, Sending, Receiving
    <2>6. CopiesFresh'
      BY <1>1, <1>5, <2>3, <2>4, CopiesStay DEF IInv
    <2>7. Ring'
      BY <1>1, <1>3, <1>4, <1>5, <2>3, RingStays DEF IInv, Inside
    <2>8. Owned'
      <3>1. \A u \in Threads : pc[u] = "commitSend" <=> pc'[u] = "commitSend"
        BY <1>3, <2>3 DEF Inside
      <3> QED
        BY <1>1, <1>5, <3>1, QuietOwned DEF shared, history
    <2> QED
      BY <2>2, <2>5, <2>6, <2>7, <2>8 DEF IInv
  <1>6. CASE /\ c.length # 0
             /\ owner' = t
             /\ index' = [index EXCEPT ![t] = c.head]
             /\ chan' = WithoutOldest(c)
             /\ copy' = [copy EXCEPT ![t] = chan']
             /\ writable' \subseteq writable
             /\ pc' = [pc EXCEPT ![t] = "take"]
             /\ UNCHANGED readable
    <2>1. c.length = chan.length /\ c.length \in 1 .. Slots
      BY <1>2, <1>4, <1>6
    <2>2. (c.head + 1) % Slots \in 0 .. Slots - 1 /\ c.head \in 0 .. Slots - 1
      BY <1>2, <1>4, <2>1, WindowShrinks
    <2>3. /\ chan'.capacity = chan.capacity /\ chan'.length = chan.length - 1
          /\ chan'.head = (chan.head + 1) % Slots /\ chan'.closed = chan.closed
          /\ chan' \in [capacity : DOMAIN Ops, length : 0 .. Slots, head : Index, closed : BOOLEAN]
          /\ chan' \in [capacity : {chan.capacity}, length : 0 .. Slots, head : Index, closed : BOOLEAN]
      <3>1. c.length - 1 \in 0 .. Slots
        BY <1>4, <2>1
      <3> QED
        BY <1>2, <1>4, <1>6, <2>1, <2>2, <3>1 DEF WithoutOldest
    <2>4. Slots' = Slots /\ Index' = Index
      BY <2>3 DEF Slots, Unbuffered, Index
    <2>5. \A u \in Threads : /\ pc'[u] = IF u = t THEN "take" ELSE pc[u]
                             /\ index'[u] = IF u = t THEN chan.head ELSE index[u]
      BY <1>2, <1>6 DEF IInv, TypeInv, TypeOK
    <2>6. \A u \in Threads : u # t => copy'[u] = copy[u]
      BY <1>6 DEF IInv, TypeInv
    <2>7. TypeInv'
      <3>1. TypeOK'
        BY <1>1, <1>2, <1>6, <2>3, <2>4 DEF IInv, TypeInv, TypeOK
      <3> QED
        BY <1>1, <1>6, <2>3, <2>4, <3>1 DEF IInv, TypeInv
    <2>8. Placed'
      BY <1>1, <1>3, <1>4, <1>6, <2>3, <2>5 DEF IInv, Placed, Calls, Inside, Sending, Receiving
    <2>9. CopiesFresh'
      <3> SUFFICES ASSUME NEW u \in Threads, pc'[u] \in {"read", "lock"} PROVE Fresh(u)'
        BY DEF CopiesFresh
      <3>1. u # t /\ Fresh(u) /\ pc[u] # "idle"
        BY <2>5 DEF IInv, CopiesFresh
      <3>2. Slots = 1 /\ Sending(op[u])
        BY <1>1, <3>1, OtherThread
      <3>3. copy[u].length \in 0 .. Slots /\ chan.head \in Index
        BY DEF IInv, TypeInv, TypeOK
      <3>4. chan'.length <= copy[u].length /\ chan'.head = chan.head
        BY <1>2, <1>4, <2>1, <2>2, <2>3, <3>2, <3>3
      <3> QED
        BY <1>1, <2>3, <2>4, <2>6, <3>1, <3>2, <3>4 DEF Fresh
    <2>10. Window = Window' \cup {chan.head} /\ chan.head \notin Window' /\ chan.head \in Index
      <3>1. Window = From(Slots, chan.head, chan.length)
        BY SlotsFact DEF IInv
      <3>2. Window' = From(Slots, (chan.head + 1) % Slots, chan.length - 1)
        <4>1. Window' = {(chan'.head + k) % Slots' : k \in 0 .. chan'.length - 1}
          BY DEF Window
        <4> QED
          BY <2>3, <2>4, <4>1, Zenon DEF From
      <3>3. chan.head \in 0 .. Slots - 1 /\ chan.length \in 1 .. Slots
        BY <1>2, <2>1, <2>2
      <3>4. /\ chan.head \notin From(Slots, (chan.head + 1) % Slots, chan.length - 1)
            /\ From(Slots, chan.head, chan.length)
                  = From(Slots, (chan.head + 1) % Slots, chan.length - 1) \cup {chan.head}
        <4> DEFINE h == chan.head
        <4> DEFINE n == chan.length
        <4>1. h \in 0 .. Slots - 1 /\ n \in 1 .. Slots /\ Slots \in Nat \ {0}
          BY <1>4, <3>3
        <4> HIDE DEF h, n
        <4>2. /\ h \notin From(Slots, (h + 1) % Slots, n - 1)
              /\ From(Slots, h, n) = From(Slots, (h + 1) % Slots, n - 1) \cup {h}
          BY <4>1, WindowShrinks
        <4> QED
          BY <4>2 DEF h, n
      <3> QED
        BY <1>4, <3>1, <3>2, <3>3, <3>4
    <2>11. Ring'
      <3>1. \A i : InFlight(i)' <=> i = chan.head
        BY <1>3, <2>5 DEF InFlight, Inside
      <3>2. \A i : ~InFlight(i)
        BY <1>3 DEF InFlight, Inside
      <3>3. \A i \in Index : initialized[i] <=> (i \in Window' \/ i = chan.head)
        BY <1>4, <2>10, <3>2 DEF IInv, Ring
      <3>4. \A u \in Threads : pc'[u] \in Inside => u = t
        BY <1>3, <2>5
      <3> QED
        BY <1>1, <1>4, <2>4, <2>5, <2>10, <3>1, <3>3, <3>4 DEF IInv, Ring, Inside
    <2>12. Owned'
      <3>1. \A m \in Messages : HeldBy(m)' = HeldBy(m)
        BY <1>1, <1>3, <2>5 DEF HeldBy, At, Inside
      <3>2. \A m \in Messages : InSlots(m)' = InSlots(m)
        BY <1>1, <2>4 DEF InSlots
      <3> QED
        BY <1>1, <3>1, <3>2, OwnedStays DEF IInv
    <2> QED
      BY <2>7, <2>8, <2>9, <2>11, <2>12 DEF IInv
  <1>7. \/ \E place \in {"waitReadable", "idle"} :
              /\ UNCHANGED <<chan, owner, writable, index>>
              /\ readable' \subseteq readable \cup {t}
              /\ copy' = [copy EXCEPT ![t] = c]
              /\ pc' = [pc EXCEPT ![t] = place]
        \/ /\ c.length # 0
           /\ owner' = t
           /\ index' = [index EXCEPT ![t] = c.head]
           /\ chan' = WithoutOldest(c)
           /\ copy' = [copy EXCEPT ![t] = chan']
           /\ writable' \subseteq writable
           /\ pc' = [pc EXCEPT ![t] = "take"]
           /\ UNCHANGED readable
    BY DEF ReceiveIndexBegin, c, Goto, Signal
  <1> QED
    BY <1>5, <1>6, <1>7

\* The message leaves its slot for the receiver, and the mutex is free.
LEMMA TakeInv ==
    ASSUME IInv, NEW t \in Threads, Take(t)
    PROVE  IInv'
  <1> DEFINE i0 == index[t]
  <1> DEFINE m0 == storage[i0]
  <1>1. /\ pc[t] = "take"
        /\ got' = Append(got, m0)
        /\ initialized' = [initialized EXCEPT ![i0] = FALSE]
        /\ owner' = NoThread
        /\ pc' = [pc EXCEPT ![t] = "idle"]
        /\ UNCHANGED <<chan, storage, handle, readable, writable, op, copy, toRead, index, message,
                       sent, kept, drops, next>>
    BY DEF Take, At, Goto, local
  <1>2. Slots' = Slots /\ Index' = Index /\ Window' = Window /\ FreeSlot(chan)' = FreeSlot(chan)
    BY <1>1 DEF Slots, Unbuffered, Index, Window, FreeSlot
  <1>3. owner = t /\ Receiving(op[t]) /\ \A u \in Threads : u # t => pc[u] \notin Inside
    BY <1>1 DEF IInv, Placed, Inside
  <1>4. i0 \in Index /\ i0 \notin Window /\ initialized[i0] /\ ~handle.destroyed
    <2>1. InFlight(i0) /\ i0 \in Index /\ ~handle.destroyed /\ i0 \notin Window
      BY <1>1 DEF InFlight, IInv, TypeInv, TypeOK, Ring
    <2> QED
      BY <2>1 DEF IInv, Ring
  <1>5. m0 \in Messages
    <2>1. m0 # 0
      BY <1>4 DEF IInv, Ring
    <2> QED
      BY <1>4, <2>1 DEF IInv, TypeInv, TypeOK
  <1>6. \A u \in Threads : pc'[u] = IF u = t THEN "idle" ELSE pc[u]
    BY <1>1 DEF IInv, TypeInv, TypeOK
  <1>7. \A i \in Index : initialized'[i] = IF i = i0 THEN FALSE ELSE initialized[i]
    BY <1>1, <1>4 DEF IInv, TypeInv, TypeOK
  <1>8. TypeInv'
    <2>1. TypeOK'
      BY <1>1, <1>2 DEF IInv, TypeInv, TypeOK
    <2>2. got' \in Seq(Messages)
      <3>1. got \in Seq(Messages)
        BY DEF IInv, TypeInv
      <3> HIDE DEF m0
      <3> QED
        BY <1>1, <1>5, <3>1
    <2> QED
      BY <1>1, <1>2, <2>1, <2>2 DEF IInv, TypeInv
  <1>9. Placed'
    BY <1>1, <1>3, <1>6, ChannelAssumption DEF IInv, Placed, Calls, Inside, Sending, Receiving
  <1>10. CopiesFresh'
    BY <1>1, <1>6, CopiesStay DEF IInv
  <1>11. Ring'
    <2>1. \A i : ~InFlight(i)'
      BY <1>3, <1>6 DEF InFlight, Inside
    <2>2. \A i : InFlight(i) <=> i = i0
      BY <1>1, <1>3 DEF InFlight, Inside
    <2>3. \A i \in Index : initialized'[i] <=> i \in Window
      BY <1>4, <1>7, <2>2 DEF IInv, Ring
    <2>4. \A i \in Index : initialized'[i] => storage[i] # 0
      BY <1>7 DEF IInv, Ring
    <2>5. \A u \in Threads : pc'[u] \notin Inside
      BY <1>3, <1>6 DEF Inside
    <2> QED
      BY <1>1, <1>2, <1>4, <2>1, <2>3, <2>4, <2>5 DEF Ring, Inside
  <1>12. Owned'
    <2>1. \A m \in Messages : InSlots(m)' = IF m = m0 THEN InSlots(m) \ {i0} ELSE InSlots(m)
      <3> SUFFICES ASSUME NEW m \in Messages
                   PROVE  InSlots(m)' = IF m = m0 THEN InSlots(m) \ {i0} ELSE InSlots(m)
        OBVIOUS
      <3>1. InSlots(m)' = {i \in Index : initialized'[i] /\ storage[i] = m}
        BY <1>1, <1>2 DEF InSlots
      <3>2. InSlots(m)' = {i \in Index : i # i0 /\ initialized[i] /\ storage[i] = m}
        BY <1>7, <3>1
      <3> QED
        BY <3>2 DEF InSlots
    <2>2. \A m \in Messages : HeldBy(m)' = HeldBy(m)
      BY <1>1, <1>6 DEF HeldBy, At
    <2>3. \A m \in Messages : GotAt(m)' = IF m = m0 THEN GotAt(m) \cup {Len(got) + 1} ELSE GotAt(m)
      <3>1. /\ DOMAIN got' = 1 .. Len(got) + 1 /\ DOMAIN got = 1 .. Len(got) /\ Len(got) \in Nat
            /\ got'[Len(got) + 1] = m0
            /\ \A k \in 1 .. Len(got) : got'[k] = got[k]
        <4>1. got \in Seq(Messages)
          BY DEF IInv, TypeInv
        <4> HIDE DEF m0
        <4> QED
          BY <1>1, <1>5, <4>1, AppendProperties
      <3> HIDE DEF m0
      <3> SUFFICES ASSUME NEW m \in Messages
                   PROVE  GotAt(m)' = IF m = m0 THEN GotAt(m) \cup {Len(got) + 1} ELSE GotAt(m)
        OBVIOUS
      <3>2. 1 .. Len(got) + 1 = (1 .. Len(got)) \cup {Len(got) + 1}
        BY <3>1
      <3>3. GotAt(m)' = {k \in (1 .. Len(got)) \cup {Len(got) + 1} : got'[k] = m}
        BY <3>1, <3>2 DEF GotAt
      <3>4. GotAt(m) = {k \in 1 .. Len(got) : got[k] = m}
        BY <3>1 DEF GotAt
      <3> QED
        BY <3>1, <3>3, <3>4
    <2>4. i0 \in InSlots(m0) /\ Len(got) + 1 \notin GotAt(m0)
      <3>1. DOMAIN got = 1 .. Len(got) /\ Len(got) \in Nat
        BY DEF IInv, TypeInv
      <3> QED
        BY <1>4, <3>1 DEF InSlots, GotAt
    <2> HIDE DEF m0, i0
    <2> SUFFICES ASSUME NEW m \in Messages
                 PROVE  IsFiniteSet(HeldBy(m))' /\ Owners(m)' = IF m < next' THEN 1 ELSE 0
      BY DEF Owned
    <2>5. /\ Owners(m)' = Cardinality(InSlots(m)') + Cardinality(HeldBy(m))
                 + Cardinality(GotAt(m)') + Cardinality({m} \cap kept) + drops[m]
          /\ Owners(m) = IF m < next THEN 1 ELSE 0
          /\ IsFiniteSet(HeldBy(m))
      BY <1>1, <2>2 DEF IInv, Owned, Owners, InSlots, HeldBy, GotAt
    <2>6. /\ Cardinality(InSlots(m)) \in Nat /\ Cardinality(HeldBy(m)) \in Nat /\ IsFiniteSet(InSlots(m))
          /\ Cardinality(GotAt(m)) \in Nat /\ Cardinality({m} \cap kept) \in Nat /\ IsFiniteSet(GotAt(m))
          /\ drops[m] \in Nat
          /\ Owners(m) = Cardinality(InSlots(m)) + Cardinality(HeldBy(m))
                + Cardinality(GotAt(m)) + Cardinality({m} \cap kept) + drops[m]
      BY CountsFact DEF IInv
    <2>7. CASE m # m0
      BY <1>1, <2>1, <2>2, <2>3, <2>5, <2>6, <2>7
    <2>8. CASE m = m0
      <3>1. Cardinality(InSlots(m)') = Cardinality(InSlots(m)) - 1
        BY <2>1, <2>4, <2>6, <2>8, CountRemove
      <3>2. Cardinality(GotAt(m)') = Cardinality(GotAt(m)) + 1
        BY <2>3, <2>4, <2>6, <2>8, CountAdd
      <3> QED
        BY <1>1, <2>2, <2>5, <2>6, <3>1, <3>2
    <2> QED
      BY <2>7, <2>8
  <1> QED
    BY <1>8, <1>9, <1>10, <1>11, <1>12 DEF IInv
\* Whoever closes is the only thread inside an operation: its copy is current.
LEMMA CloseInv ==
    ASSUME Disciplined, IInv, NEW t \in Threads, Close(t)
    PROVE  /\ IInv'
           /\ chan' = [chan EXCEPT !.closed = TRUE]
           /\ ~handle.destroyed
  <1>1. /\ CanStart(t) /\ op[t] = "close" /\ owner = NoThread /\ pc[t] = "lock"
        /\ chan' = [copy[t] EXCEPT !.closed = TRUE]
        /\ readable' = {} /\ writable' = {}
        /\ handle' = [handle EXCEPT !.closed = TRUE]
        /\ pc' = [pc EXCEPT ![t] = "idle"]
        /\ UNCHANGED <<storage, initialized, owner, op, copy, toRead, index, message,
                       sent, got, kept, drops, next>>
    BY DEF Close, CanStart, At, Goto, local, history, IInv, Placed
  <1>2. \A u \in Threads : u # t => pc[u] = "idle"
    BY <1>1, OtherThread
  <1>3. ~handle.destroyed /\ message[t] = 0
    BY <1>1 DEF IInv, Ring, Placed, Sending
  <1>4. chan' = [chan EXCEPT !.closed = TRUE]
    <2>1. copy[t].head = chan.head /\ copy[t].length = chan.length
      BY <1>1 DEF IInv, Placed, CopiesFresh, Fresh, Sending, Receiving
    <2>2. /\ copy[t] \in [capacity : {chan.capacity}, length : 0 .. Slots, head : Index, closed : BOOLEAN]
          /\ chan \in [capacity : DOMAIN Ops, length : 0 .. Slots, head : Index, closed : BOOLEAN]
      BY DEF IInv, TypeInv, TypeOK
    <2> QED
      BY <1>1, <2>1, <2>2
  <1>5. /\ chan'.capacity = chan.capacity /\ chan'.length = chan.length /\ chan'.head = chan.head
        /\ chan' \in [capacity : DOMAIN Ops, length : 0 .. Slots, head : Index, closed : BOOLEAN]
        /\ handle'.destroyed = handle.destroyed
        /\ handle' \in [closed : BOOLEAN, destroyed : BOOLEAN]
    BY <1>1, <1>4 DEF IInv, TypeInv, TypeOK
  <1>6. Slots' = Slots /\ Index' = Index
    BY <1>5 DEF Slots, Unbuffered, Index
  <1>7. \A u \in Threads : pc'[u] = "idle"
    BY <1>1, <1>2 DEF IInv, TypeInv, TypeOK
  <1>8. TypeInv'
    <2>1. TypeOK'
      BY <1>1, <1>5, <1>6 DEF IInv, TypeInv, TypeOK
    <2> QED
      BY <1>1, <1>5, <1>6, <2>1 DEF IInv, TypeInv
  <1>9. Placed'
    BY <1>1, <1>2, <1>3, <1>7, ChannelAssumption DEF IInv, Placed, Inside
  <1>10. CopiesFresh'
    BY <1>7 DEF CopiesFresh
  <1>11. Ring'
    <2>1. Window' = Window
      <3>1. Window' = {(chan'.head + k) % Slots' : k \in 0 .. chan'.length - 1}
        BY DEF Window
      <3> QED
        BY <1>5, <1>6, <3>1, Zenon DEF Window
    <2>2. \A i : ~InFlight(i)' /\ ~InFlight(i)
      BY <1>1, <1>2, <1>7 DEF InFlight
    <2> QED
      BY <1>1, <1>5, <1>6, <1>7, <2>1, <2>2 DEF IInv, Ring
  <1>12. Owned'
    <2>1. \A m : InSlots(m)' = InSlots(m)
      BY <1>1, <1>6 DEF InSlots
    <2>2. \A m : HeldBy(m)' = HeldBy(m)
      BY <1>1, <1>2, <1>7 DEF HeldBy, At
    <2> QED
      BY <1>1, <2>1, <2>2, OwnedStays DEF IInv
  <1> QED
    BY <1>3, <1>4, <1>8, <1>9, <1>10, <1>11, <1>12 DEF IInv

\* Destroying drops what the slots own, and nothing else.
LEMMA DestroyInv ==
    ASSUME IInv, NEW t \in Threads, Destroy(t)
    PROVE  IInv'
  <1>1. /\ \A u \in Threads : pc[u] = "idle"
        /\ handle' = [handle EXCEPT !.destroyed = TRUE]
        /\ drops' = [m \in Messages |->
                        drops[m] + Cardinality({i \in Index : initialized[i] /\ storage[i] = m})]
        /\ initialized' = [i \in Index |-> FALSE]
        /\ UNCHANGED <<chan, storage, owner, readable, writable, pc, op, copy, toRead, index,
                       message, sent, got, kept, next>>
    BY DEF Destroy, At, local
  <1>2. Slots' = Slots /\ Index' = Index
    BY <1>1 DEF Slots, Unbuffered, Index
  <1>3. \A m \in Messages : drops'[m] = drops[m] + Cardinality(InSlots(m))
    BY <1>1 DEF InSlots
  <1>4. handle'.destroyed /\ handle' \in [closed : BOOLEAN, destroyed : BOOLEAN]
    BY <1>1 DEF IInv, TypeInv, TypeOK
  <1>5. TypeInv'
    <2>1. TypeOK'
      BY <1>1, <1>2, <1>4 DEF IInv, TypeInv, TypeOK
    <2>2. drops' \in [Messages -> Nat]
      <3>1. \A m \in Messages : drops[m] + Cardinality(InSlots(m)) \in Nat
        <4>1. \A m \in Messages : drops[m] \in Nat /\ Cardinality(InSlots(m)) \in Nat
          BY CountsFact DEF IInv
        <4> QED
          BY <4>1
      <3> QED
        BY <1>1, <3>1 DEF InSlots
    <2> QED
      BY <1>1, <1>2, <2>1, <2>2 DEF IInv, TypeInv
  <1>6. Placed'
    BY <1>1 DEF IInv, Placed, Calls, Inside
  <1>7. CopiesFresh'
    BY <1>1 DEF CopiesFresh
  <1>8. Ring'
    BY <1>1, <1>2, <1>4 DEF Ring
  <1>9. Owned'
    <2> SUFFICES ASSUME NEW m \in Messages
                 PROVE  IsFiniteSet(HeldBy(m))' /\ Owners(m)' = IF m < next' THEN 1 ELSE 0
      BY DEF Owned
    <2>1. HeldBy(m)' = HeldBy(m) /\ GotAt(m)' = GotAt(m) /\ InSlots(m)' = {}
      BY <1>1, <1>2 DEF HeldBy, GotAt, InSlots, At
    <2>2. /\ Owners(m)' = Cardinality(InSlots(m)') + Cardinality(HeldBy(m))
                 + Cardinality(GotAt(m)) + Cardinality({m} \cap kept) + drops'[m]
          /\ Owners(m) = IF m < next THEN 1 ELSE 0
          /\ IsFiniteSet(HeldBy(m))
      BY <1>1, <2>1 DEF IInv, Owned, Owners, InSlots, HeldBy, GotAt
    <2>3. /\ Cardinality(InSlots(m)) \in Nat /\ Cardinality(HeldBy(m)) \in Nat
          /\ Cardinality(GotAt(m)) \in Nat /\ Cardinality({m} \cap kept) \in Nat
          /\ drops[m] \in Nat
          /\ Owners(m) = Cardinality(InSlots(m)) + Cardinality(HeldBy(m))
                + Cardinality(GotAt(m)) + Cardinality({m} \cap kept) + drops[m]
      BY CountsFact DEF IInv
    <2>4. Cardinality(InSlots(m)') = 0
      BY <2>1, FS_EmptySet
    <2> QED
      BY <1>1, <1>3, <2>1, <2>2, <2>3, <2>4
  <1> QED
    BY <1>5, <1>6, <1>7, <1>8, <1>9 DEF IInv

\* Every step preserves the invariant.
LEMMA NextInv == Disciplined /\ IInv /\ [Next]_vars => IInv'
  <1> SUFFICES ASSUME Disciplined, IInv, [Next]_vars PROVE IInv'
    OBVIOUS
  <1>1. ASSUME NEW t \in Threads, NEW o \in Calls(t), Start(t, o) PROVE IInv'
    BY <1>1, StartInv
  <1>2. ASSUME NEW t \in Threads, NEW f \in Fields, ReadField(t, f) PROVE IInv'
    BY <1>2, ReadFieldInv
  <1>3. ASSUME NEW t \in Threads, SendIndexBegin(t) \/ Store(t) \/ SendIndexCommit(t) PROVE IInv'
    BY <1>3, SendBeginInv, StoreInv, CommitInv
  <1>4. ASSUME NEW t \in Threads, ReceiveIndexBegin(t) \/ Take(t) PROVE IInv'
    BY <1>4, ReceiveBeginInv, TakeInv
  <1>5. ASSUME NEW t \in Threads, Rendezvous(t) \/ Wake(t) \/ SpuriousWake(t) PROVE IInv'
    BY <1>5, WaitInv
  <1>6. ASSUME NEW t \in Threads, Close(t) \/ Destroy(t) PROVE IInv'
    BY <1>6, CloseInv, DestroyInv
  <1>7. CASE UNCHANGED vars
    <2>1. UNCHANGED <<chan, storage, initialized, handle, owner, readable, writable, pc, op, copy,
                      toRead, index, message, sent, got, kept, drops, next>>
      BY <1>7 DEF vars, shared, local, history
    <2>2. Slots' = Slots /\ Index' = Index
      BY <2>1 DEF Slots, Unbuffered, Index
    <2>3. TypeInv'
      <3>1. TypeOK'
        BY <2>1, <2>2 DEF IInv, TypeInv, TypeOK
      <3> QED
        BY <2>1, <2>2, <3>1 DEF IInv, TypeInv
    <2>4. Placed' /\ CopiesFresh'
      BY <2>1, <2>2 DEF IInv, Placed, Calls, CopiesFresh, Fresh
    <2>5. Ring'
      BY <2>1, RingStays DEF IInv, Ring
    <2>6. Owned'
      BY <2>1, QuietOwned DEF shared, history
    <2> QED
      BY <2>3, <2>4, <2>5, <2>6 DEF IInv
  <1> QED
    BY <1>1, <1>2, <1>3, <1>4, <1>5, <1>6, <1>7 DEF Next, Work

(* However threads interleave and whatever their copies of the channel hold, *)
(* the mutex, the ring and the types are as the code of channelReceive and   *)
(* channelSend takes them to be.                                             *)
THEOREM TypeCorrect == Disciplined => (Spec => []TypeOK)
  <1> SUFFICES ASSUME Disciplined PROVE Spec => []TypeOK
    OBVIOUS
  <1>1. IInv /\ [Next]_vars => IInv'
    BY NextInv
  <1>2. IInv => TypeOK
    BY DEF IInv, TypeInv
  <1> QED
    BY <1>1, <1>2, InitInv, PTL DEF Spec

(* Every message handed to a channel has one owner at any moment: a slot,    *)
(* its sender, its receiver, the caller that trySend gave it back to, or the *)
(* one destructor call that ended it.  No message is dropped twice or lost.  *)
THEOREM MessagesHaveOneOwner == Disciplined => (Spec => []OneOwner)
  <1> SUFFICES ASSUME Disciplined PROVE Spec => []OneOwner
    OBVIOUS
  <1>1. IInv /\ [Next]_vars => IInv'
    BY NextInv
  <1>2. IInv => OneOwner
    <2> SUFFICES ASSUME IInv, NEW m \in 1 .. next - 1 PROVE Owners(m) = 1
      BY DEF OneOwner
    <2>1. m \in Messages /\ m < next
      BY ChannelAssumption DEF IInv, TypeInv, TypeOK, Messages
    <2> QED
      BY <2>1 DEF IInv, Owned
  <1> QED
    BY <1>1, <1>2, InitInv, PTL DEF Spec

(* While the mutex is free, the slots that own a message are the `length`    *)
(* slots from `head` on: what Channel.destroy drops is what a receiver could *)
(* still have taken.                                                         *)
THEOREM SlotsAreTheQueue == Disciplined => (Spec => []SlotsMatchQueue)
  <1> SUFFICES ASSUME Disciplined PROVE Spec => []SlotsMatchQueue
    OBVIOUS
  <1>1. IInv /\ [Next]_vars => IInv'
    BY NextInv
  <1>2. IInv => SlotsMatchQueue
    <2> SUFFICES ASSUME IInv, owner = NoThread, ~handle.destroyed
                 PROVE  {i \in Index : initialized[i]} = Window
      BY DEF SlotsMatchQueue
    <2>1. \A i : ~InFlight(i)
      BY ChannelAssumption DEF IInv, Placed, InFlight, Inside
    <2>2. Window \subseteq Index
      BY WindowInRing
    <2> QED
      BY <2>1, <2>2 DEF IInv, Ring
  <1> QED
    BY <1>1, <1>2, InitInv, PTL DEF Spec
-----------------------------------------------------------------------------
(* The ring implements MessageQueue, step by step.                           *)

\* What has been taken, in any state: one thread at most is taking.
TakenOf(p, g, s, i) ==
    IF \E t \in Threads : p[t] = "take"
    THEN Append(g, s[i[CHOOSE t \in Threads : p[t] = "take"]])
    ELSE g

LEMMA TakenFact ==
    ASSUME NEW p, NEW g, NEW s, NEW i,
           \A t, u \in Threads : p[t] = "take" /\ p[u] = "take" => t = u
    PROVE  /\ \A t \in Threads : p[t] = "take" => TakenOf(p, g, s, i) = Append(g, s[i[t]])
           /\ (\A t \in Threads : p[t] # "take") => TakenOf(p, g, s, i) = g
  <1>1. ASSUME NEW t \in Threads, p[t] = "take"
        PROVE  TakenOf(p, g, s, i) = Append(g, s[i[t]])
    <2>1. (CHOOSE u \in Threads : p[u] = "take") = t
      BY <1>1
    <2> QED
      BY <1>1, <2>1 DEF TakenOf
  <1> QED
    BY <1>1 DEF TakenOf

\* The same of this state and of the next one.
LEMMA TakenNow ==
    ASSUME IInv, IInv'
    PROVE  /\ \A t \in Threads : pc[t] = "take" => Taken = Append(got, storage[index[t]])
           /\ (\A t \in Threads : pc[t] # "take") => Taken = got
           /\ \A t \in Threads : pc'[t] = "take" => Taken' = Append(got', storage'[index'[t]])
           /\ (\A t \in Threads : pc'[t] # "take") => Taken' = got'
  <1>1. /\ Taken = TakenOf(pc, got, storage, index)
        /\ Taken' = TakenOf(pc', got', storage', index')
    BY DEF Taken, TakenOf, At
  <1>2. /\ \A t, u \in Threads : pc[t] = "take" /\ pc[u] = "take" => t = u
        /\ \A t, u \in Threads : pc'[t] = "take" /\ pc'[u] = "take" => t = u
    BY DEF IInv, Placed, Inside
  <1>3. /\ \A t \in Threads : pc[t] = "take" =>
              TakenOf(pc, got, storage, index) = Append(got, storage[index[t]])
        /\ (\A t \in Threads : pc[t] # "take") => TakenOf(pc, got, storage, index) = got
    BY <1>2, TakenFact
  <1>4. /\ \A t \in Threads : pc'[t] = "take" =>
              TakenOf(pc', got', storage', index') = Append(got', storage'[index'[t]])
        /\ (\A t \in Threads : pc'[t] # "take") => TakenOf(pc', got', storage', index') = got'
    BY <1>2, TakenFact
  <1> QED
    BY <1>1, <1>3, <1>4

\* The queue is what the slots of the window hold.
LEMMA QueuedFact ==
    ASSUME IInv
    PROVE  /\ ~handle.destroyed => Queued = [k \in 1 .. chan.length |-> storage[(chan.head + k - 1) % Slots]]
           /\ handle.destroyed => Queued = <<>>
           /\ chan.length \in Nat
           /\ \A k \in 1 .. chan.length : (chan.head + k - 1) % Slots \in Window
  <1>1. \A k \in 1 .. chan.length : k - 1 \in 0 .. chan.length - 1
                                    /\ chan.head + k - 1 = chan.head + (k - 1)
    BY SlotsFact DEF IInv, TypeInv, TypeOK, Index
  <1>2. chan.length \in Nat
    BY SlotsFact DEF IInv, TypeInv, TypeOK
  <1> QED
    BY <1>1, <1>2 DEF Queued, Window

\* The queue stays what it is while the slots in the window do.
LEMMA QueuedStays ==
    ASSUME IInv, handle'.destroyed = handle.destroyed,
           chan'.capacity = chan.capacity, chan'.head = chan.head, chan'.length = chan.length,
           \A i \in Window : storage'[i] = storage[i]
    PROVE  Queued' = Queued
  <1>1. Slots' = Slots
    BY DEF Slots, Unbuffered
  <1>2. \A k \in 1 .. chan.length :
            storage'[(chan.head + k - 1) % Slots] = storage[(chan.head + k - 1) % Slots]
    BY QueuedFact
  <1>3. Queued' = IF handle.destroyed THEN <<>>
                  ELSE [k \in 1 .. chan.length |-> storage'[(chan.head + k - 1) % Slots]]
    BY <1>1 DEF Queued
  <1>4. Queued = IF handle.destroyed THEN <<>>
                 ELSE [k \in 1 .. chan.length |-> storage[(chan.head + k - 1) % Slots]]
    BY DEF Queued
  <1> QED
    BY <1>2, <1>3, <1>4

\* A step that changes no part of the queue.
LEMMA Stutters ==
    ASSUME IInv, IInv', UNCHANGED <<chan, handle, got>>,
           \A i \in Window : storage'[i] = storage[i],
           \A t \in Threads : pc'[t] = "take" <=> pc[t] = "take",
           \A t \in Threads : pc[t] = "take" => index'[t] = index[t] /\ storage' = storage
    PROVE  UNCHANGED Queue!qvars
  <1>1. Queued' = Queued /\ Slots' = Slots
    BY QueuedStays DEF Slots, Unbuffered
  <1>2. Taken' = Taken
    <2>3. CASE \E t \in Threads : pc[t] = "take"
      BY <2>3, TakenNow
    <2>4. CASE \A t \in Threads : pc[t] # "take"
      BY <2>4, TakenNow
    <2> QED
      BY <2>3, <2>4
  <1> QED
    BY <1>1, <1>2 DEF Queue!qvars

\* The created channel is an empty queue.
LEMMA QueueInit == Init => Queue!Init
  <1> SUFFICES ASSUME Init PROVE Queue!Init
    OBVIOUS
  <1>1. IInv
    BY InitInv
  <1>2. chan.length = 0 /\ ~chan.closed /\ ~handle.destroyed /\ got = <<>>
    BY DEF Init
  <1>3. Slots \in Nat \ {0}
    BY <1>1, SlotsFact DEF IInv
  <1>4. Queued = <<>>
    <2>1. Queued = [k \in 1 .. 0 |-> storage[(chan.head + k - 1) % Slots]]
      BY <1>2 DEF Queued
    <2> QED
      BY <2>1
  <1>5. Taken = <<>>
    BY <1>2 DEF Init, Taken, At
  <1> QED
    BY <1>2, <1>3, <1>4, <1>5 DEF Queue!Init

\* A commit appends its message.
LEMMA CommitEnqueues ==
    ASSUME IInv, IInv', NEW t \in Threads, SendIndexCommit(t)
    PROVE  Queue!Next
  <1> DEFINE m0 == message[t]
  <1>1. /\ pc[t] = "commitSend"
        /\ chan' = [chan EXCEPT !.length = @ + 1]
        /\ UNCHANGED <<storage, handle, got>>
        /\ pc' = [pc EXCEPT ![t] = "rendezvous"] \/ pc' = [pc EXCEPT ![t] = "idle"]
    BY DEF SendIndexCommit, At, Goto
  <1>2. /\ ~chan.closed /\ ~handle.destroyed /\ chan.length < Slots
        /\ storage[FreeSlot(chan)] = m0
        /\ m0 \in Messages
    <2>1. m0 # 0
      BY <1>1 DEF IInv, Placed
    <2> QED
      BY <1>1, <2>1 DEF IInv, Ring, TypeInv, TypeOK
  <1>3. /\ chan'.length = chan.length + 1 /\ chan'.head = chan.head
        /\ chan'.capacity = chan.capacity /\ chan'.closed = chan.closed
    BY <1>1 DEF IInv, TypeInv, TypeOK
  <1>4. Slots' = Slots /\ Slots \in Nat \ {0} /\ chan.length \in Nat /\ chan.head \in Nat
    <2>1. Slots' = Slots
      BY <1>3 DEF Slots, Unbuffered
    <2>2. Slots \in Nat \ {0} /\ chan.length \in 0 .. Slots /\ chan.head \in 0 .. Slots - 1
      BY SlotsFact DEF IInv, TypeInv, TypeOK, Index
    <2> QED
      BY <2>1, <2>2
  <1>5. Taken' = Taken
    <2>1. \A u \in Threads : pc[u] # "take" /\ pc'[u] # "take"
      BY <1>1 DEF IInv, TypeInv, TypeOK, Placed, Inside
    <2> QED
      BY <1>1, <2>1, TakenNow
  <1>6. Queued = [k \in 1 .. chan.length |-> storage[(chan.head + k - 1) % Slots]]
    BY <1>2, QueuedFact
  <1>7. Queued' = [k \in 1 .. chan.length + 1 |-> storage[(chan.head + k - 1) % Slots]]
    <2>1. Queued' = [k \in 1 .. chan'.length |-> storage'[(chan'.head + k - 1) % Slots']]
      BY <1>1, <1>2 DEF Queued
    <2> QED
      BY <1>1, <1>3, <1>4, <2>1
  <1>8. (chan.head + (chan.length + 1) - 1) % Slots = FreeSlot(chan)
    BY <1>4 DEF FreeSlot
  <1>9. Queued' = Append(Queued, m0) /\ Len(Queued) = chan.length
    <2> DEFINE n == chan.length
    <2> DEFINE SlotOf(k) == storage[(chan.head + k - 1) % Slots]
    <2>1. n \in Nat /\ Queued = [k \in 1 .. n |-> SlotOf(k)] /\ Queued' = [k \in 1 .. n + 1 |-> SlotOf(k)]
          /\ SlotOf(n + 1) = m0
      BY <1>2, <1>4, <1>6, <1>7, <1>8
    <2> HIDE DEF n, SlotOf, m0
    <2> QED
      BY <2>1 DEF n
  <1>10. Queue!Enqueue(m0)
    BY <1>1, <1>2, <1>3, <1>4, <1>5, <1>9 DEF Queue!Enqueue
  <1> QED
    BY <1>2, <1>10 DEF Queue!Next

\* A receive that finds a message takes the oldest; any other does nothing.
LEMMA ReceiveDequeues ==
    ASSUME IInv, IInv', NEW t \in Threads, ReceiveIndexBegin(t)
    PROVE  Queue!Next \/ UNCHANGED Queue!qvars
  <1> DEFINE c == View(t)
  <1>1. /\ CanStart(t) /\ pc[t] \in {"lock", "woken"} /\ owner = NoThread
        /\ Receiving(op[t])
        /\ UNCHANGED <<storage, handle, got>>
    BY DEF ReceiveIndexBegin, CanStart, At, history
  <1>2. /\ c \in [capacity : DOMAIN Ops, length : 0 .. Slots, head : Index, closed : BOOLEAN]
        /\ c.capacity = chan.capacity /\ c.head = chan.head /\ c.closed = chan.closed
        /\ c.length = chan.length \/ (Slots = 1 /\ c.length <= chan.length)
    BY <1>1, ViewFact DEF Sending, Receiving
  <1>3. \A u \in Threads : pc[u] \notin Inside
    BY <1>1, ChannelAssumption DEF IInv, Placed
  <1>4. /\ ~handle.destroyed
        /\ Slots \in Nat \ {0} /\ Index = 0 .. Slots - 1 /\ chan.length \in 0 .. Slots
    BY <1>1, SlotsFact DEF IInv, Ring, TypeInv, TypeOK, Index
  <1> HIDE DEF c
  <1>5. CASE /\ chan' = chan
             /\ \E place \in {"waitReadable", "idle"} : pc' = [pc EXCEPT ![t] = place]
    <2>1. \A u \in Threads : pc'[u] # "take" /\ pc[u] # "take"
      BY <1>3, <1>5 DEF Inside, IInv, TypeInv, TypeOK
    <2> QED
      BY <1>1, <1>5, <2>1, Stutters
  <1>6. CASE /\ c.length # 0
             /\ index' = [index EXCEPT ![t] = c.head]
             /\ chan' = WithoutOldest(c)
             /\ pc' = [pc EXCEPT ![t] = "take"]
    <2>1. c.length = chan.length /\ chan.length \in 1 .. Slots /\ chan.head \in 0 .. Slots - 1
      BY <1>2, <1>4, <1>6
    <2>2. /\ chan'.capacity = chan.capacity /\ chan'.length = chan.length - 1
          /\ chan'.head = (chan.head + 1) % Slots /\ chan'.closed = chan.closed
      BY <1>2, <1>6, <2>1 DEF WithoutOldest
    <2>3. Slots' = Slots
      BY <2>2 DEF Slots, Unbuffered
    <2>4. Taken = got /\ Taken' = Append(got, storage[chan.head])
      <3>1. pc'[t] = "take" /\ index'[t] = chan.head
        BY <1>2, <1>6 DEF IInv, TypeInv, TypeOK
      <3>2. \A u \in Threads : pc[u] # "take"
        BY <1>3 DEF Inside
      <3> QED
        BY <1>1, <3>1, <3>2, TakenNow
    <2>5. Queued = [k \in 1 .. chan.length |-> storage[(chan.head + k - 1) % Slots]]
      BY <1>4, QueuedFact
    <2>6. Queued' = [k \in 1 .. chan.length - 1 |-> storage[(((chan.head + 1) % Slots) + k - 1) % Slots]]
      <3>1. Queued' = [k \in 1 .. chan'.length |-> storage'[(chan'.head + k - 1) % Slots']]
        BY <1>1, <1>4 DEF Queued
      <3> QED
        BY <1>1, <2>2, <2>3, <3>1, Zenon
    <2>7. /\ (chan.head + 1 - 1) % Slots = chan.head
          /\ \A k \in 1 .. chan.length - 1 :
                (((chan.head + 1) % Slots) + k - 1) % Slots = (chan.head + (k + 1) - 1) % Slots
      <3> DEFINE h == chan.head
      <3> DEFINE n == chan.length
      <3> DEFINE s == Slots
      <3>1. h \in 0 .. s - 1 /\ n \in 1 .. s /\ s \in Nat \ {0}
        BY <1>4, <2>1
      <3> HIDE DEF h, n, s
      <3>0. \A k \in 0 .. s : (h + k) % s = IF h + k < s THEN h + k ELSE h + k - s
        BY <3>1, Around
      <3>2. (h + 1 - 1) % s = h
        <4>1. h + 1 - 1 = h + 0 /\ (h + 0) % s = h
          BY <3>1, Around
        <4> QED
          BY <4>1
      <3>3. \A k \in 1 .. n - 1 : (((h + 1) % s) + k - 1) % s = (h + (k + 1) - 1) % s
        <4> SUFFICES ASSUME NEW k \in 1 .. n - 1
                     PROVE  (((h + 1) % s) + k - 1) % s = (h + (k + 1) - 1) % s
          OBVIOUS
        <4>1. /\ (h + 1) % s = IF h + 1 < s THEN h + 1 ELSE h + 1 - s
              /\ (h + k) % s = IF h + k < s THEN h + k ELSE h + k - s
              /\ h + (k + 1) - 1 = h + k
          BY <3>0, <3>1
        <4>2. CASE h + 1 < s
          <5>1. ((h + 1) % s) + k - 1 = h + k
            BY <3>1, <4>1, <4>2
          <5> QED
            BY <4>1, <5>1
        <4>3. CASE ~(h + 1 < s)
          <5>1. h = s - 1 /\ ((h + 1) % s) + k - 1 = k - 1 /\ (h + k) % s = k - 1
            BY <3>1, <4>1, <4>3
          <5>2. (k - 1) % s = k - 1
            <6> DEFINE a == k - 1
            <6>1. a \in 0 .. s - 1 /\ s \in Nat \ {0}
              BY <3>1
            <6> HIDE DEF a
            <6>2. a % s = a
              BY <6>1
            <6> QED
              BY <6>2 DEF a
          <5> QED
            BY <4>1, <5>1, <5>2
        <4> QED
          BY <4>2, <4>3
      <3> QED
        BY <3>2, <3>3 DEF h, n, s
    <2>8. Queued # <<>> /\ Head(Queued) = storage[chan.head] /\ Queued' = Tail(Queued)
      <3> DEFINE n == chan.length
      <3> DEFINE SlotOf(k) == storage[(chan.head + k - 1) % Slots]
      <3>1. n \in Nat \ {0} /\ Queued = [k \in 1 .. n |-> SlotOf(k)]
            /\ Queued' = [k \in 1 .. n - 1 |-> SlotOf(k + 1)] /\ SlotOf(1) = storage[chan.head]
        <4>1. n \in Nat \ {0} /\ Queued = [k \in 1 .. n |-> SlotOf(k)]
          BY <2>1, <2>5
        <4>2. Queued' = [k \in 1 .. n - 1 |-> SlotOf(k + 1)]
          BY <2>6, <2>7
        <4>3. SlotOf(1) = storage[chan.head]
          BY <2>7
        <4> QED
          BY <4>1, <4>2, <4>3
      <3> HIDE DEF n, SlotOf
      <3> DEFINE Stored == {SlotOf(k) : k \in 1 .. n}
      <3>2. Queued \in Seq(Stored) /\ Len(Queued) = n
        BY <3>1
      <3>3. Queued[1] = SlotOf(1) /\ n - 1 \in Nat
            /\ \A k \in 1 .. n - 1 : Queued[k + 1] = SlotOf(k + 1)
        BY <3>1
      <3> HIDE DEF Stored
      <3>4. Queued # <<>> /\ Head(Queued) = Queued[1]
        BY <3>1, <3>2
      <3>5. /\ Tail(Queued) \in Seq(Stored)
            /\ Len(Tail(Queued)) = n - 1
            /\ \A k \in 1 .. n - 1 : Tail(Queued)[k] = Queued[k + 1]
        BY <3>2, <3>4, HeadTailProperties
      <3>6. Tail(Queued) = [k \in 1 .. n - 1 |-> Tail(Queued)[k]]
        <4> DEFINE q == Tail(Queued)
        <4>1. q \in Seq(Stored) /\ Len(q) = n - 1
          BY <3>5
        <4> HIDE DEF q
        <4>2. q = [k \in 1 .. n - 1 |-> q[k]]
          BY <4>1
        <4> QED
          BY <4>2 DEF q
      <3>7. Tail(Queued) = Queued'
        BY <3>1, <3>3, <3>5, <3>6
      <3> QED
        BY <3>1, <3>3, <3>4, <3>7
    <2>9. Queue!Dequeue
      BY <1>1, <1>4, <2>2, <2>3, <2>4, <2>8 DEF Queue!Dequeue
    <2> QED
      BY <2>9 DEF Queue!Next
  <1>7. \/ /\ chan' = chan
           /\ \E place \in {"waitReadable", "idle"} : pc' = [pc EXCEPT ![t] = place]
        \/ /\ c.length # 0
           /\ index' = [index EXCEPT ![t] = c.head]
           /\ chan' = WithoutOldest(c)
           /\ pc' = [pc EXCEPT ![t] = "take"]
    BY DEF ReceiveIndexBegin, c, Goto
  <1> QED
    BY <1>5, <1>6, <1>7

\* Every step is a step of the queue or leaves it as it is.
LEMMA QueueStep == Disciplined /\ IInv /\ IInv' /\ [Next]_vars => [Queue!Next]_(Queue!qvars)
  <1> SUFFICES ASSUME Disciplined, IInv, IInv', [Next]_vars
               PROVE  Queue!Next \/ UNCHANGED Queue!qvars
    OBVIOUS
  <1>1. ASSUME NEW t \in Threads, NEW o \in Calls(t), Start(t, o)
        PROVE  UNCHANGED Queue!qvars
    <2>1. /\ UNCHANGED <<chan, storage, handle, index, got>>
          /\ pc' = pc \/ (pc[t] = "idle" /\ pc' = [pc EXCEPT ![t] = "read"])
      BY <1>1 DEF Start, At, Goto, shared
    <2>2. \A u \in Threads : pc'[u] = "take" <=> pc[u] = "take"
      BY <2>1 DEF IInv, TypeInv, TypeOK
    <2> QED
      BY <2>1, <2>2, Stutters
  <1>2. ASSUME NEW t \in Threads, NEW f \in Fields, ReadField(t, f)
        PROVE  UNCHANGED Queue!qvars
    <2>1. /\ UNCHANGED <<chan, storage, handle, index, got>>
          /\ pc[t] = "read" /\ (pc' = pc \/ pc' = [pc EXCEPT ![t] = "lock"])
      BY <1>2 DEF ReadField, At, Goto, shared, history
    <2>2. \A u \in Threads : pc'[u] = "take" <=> pc[u] = "take"
      BY <2>1 DEF IInv, TypeInv, TypeOK
    <2> QED
      BY <2>1, <2>2, Stutters
  <1>3. ASSUME NEW t \in Threads, SendIndexBegin(t)
        PROVE  UNCHANGED Queue!qvars
    <2>1. /\ UNCHANGED <<chan, storage, handle, got>>
          /\ pc[t] \in {"lock", "woken"} /\ owner = NoThread
          /\ \E place \in {"waitWritable", "idle", "store"} : pc' = [pc EXCEPT ![t] = place]
      BY <1>3 DEF SendIndexBegin, CanStart, Refuse, At, Goto, shared
    <2>2. \A u \in Threads : pc'[u] # "take" /\ pc[u] # "take"
      BY <2>1, ChannelAssumption DEF IInv, TypeInv, TypeOK, Placed, Inside
    <2> QED
      BY <2>1, <2>2, Stutters
  <1>4. ASSUME NEW t \in Threads, Store(t)
        PROVE  UNCHANGED Queue!qvars
    <2>1. /\ UNCHANGED <<chan, handle, index, got>>
          /\ storage' = [storage EXCEPT ![index[t]] = message[t]]
          /\ pc[t] = "store" /\ pc' = [pc EXCEPT ![t] = "commitSend"]
      BY <1>4 DEF Store, StoreElement, At, Goto, local
    <2>2. \A u \in Threads : pc'[u] # "take" /\ pc[u] # "take"
      BY <2>1 DEF IInv, TypeInv, TypeOK, Placed, Inside
    <2>3. index[t] \notin Window
      <3>1. /\ chan.head \in 0 .. Slots - 1 /\ chan.length \in 0 .. Slots - 1 /\ Slots \in Nat \ {0}
            /\ index[t] = (chan.head + chan.length) % Slots
            /\ Window = From(Slots, chan.head, chan.length)
        <4>1. chan.length < Slots /\ index[t] = FreeSlot(chan)
          BY <2>1 DEF IInv, Ring
        <4>2. chan.head \in 0 .. Slots - 1 /\ chan.length \in 0 .. Slots
          BY DEF IInv, TypeInv, TypeOK, Index
        <4>3. Slots \in Nat \ {0} /\ Window = From(Slots, chan.head, chan.length)
          BY SlotsFact DEF IInv
        <4> QED
          BY <4>1, <4>2, <4>3 DEF FreeSlot
      <3>2. (chan.head + chan.length) % Slots \notin From(Slots, chan.head, chan.length)
        <4> DEFINE h == chan.head
        <4> DEFINE n == chan.length
        <4>1. h \in 0 .. Slots - 1 /\ n \in 0 .. Slots - 1 /\ Slots \in Nat \ {0}
          BY <3>1
        <4> HIDE DEF h, n
        <4>2. (h + n) % Slots \notin From(Slots, h, n)
          BY <4>1, WindowGrows
        <4> QED
          BY <4>2 DEF h, n
      <3> QED
        BY <3>1, <3>2
    <2>4. \A i \in Window : storage'[i] = storage[i]
      BY <2>1, <2>3, WindowInRing DEF IInv, TypeInv, TypeOK
    <2> QED
      BY <2>1, <2>2, <2>4, Stutters
  <1>5. ASSUME NEW t \in Threads, SendIndexCommit(t) PROVE Queue!Next
    BY <1>5, CommitEnqueues
  <1>6. ASSUME NEW t \in Threads, ReceiveIndexBegin(t) PROVE Queue!Next \/ UNCHANGED Queue!qvars
    BY <1>6, ReceiveDequeues
  <1>7. ASSUME NEW t \in Threads, Rendezvous(t) \/ Wake(t) \/ SpuriousWake(t)
        PROVE  UNCHANGED Queue!qvars
    <2>1. /\ UNCHANGED <<chan, storage, handle, index, got>>
          /\ \/ pc' = pc
             \/ pc[t] = "rendezvous" /\ pc' = [pc EXCEPT ![t] = "idle"]
             \/ pc[t] \in {"waitWritable", "waitReadable"} /\ pc' = [pc EXCEPT ![t] = "woken"]
      BY <1>7 DEF Rendezvous, Wake, SpuriousWake, At, Goto, shared, local, history
    <2>2. \A u \in Threads : pc'[u] = "take" <=> pc[u] = "take"
      BY <2>1 DEF IInv, TypeInv, TypeOK
    <2> QED
      BY <2>1, <2>2, Stutters
  <1>8. ASSUME NEW t \in Threads, Take(t) PROVE UNCHANGED Queue!qvars
    <2>1. /\ UNCHANGED <<chan, storage, handle, index>>
          /\ pc[t] = "take" /\ pc' = [pc EXCEPT ![t] = "idle"]
          /\ got' = Append(got, storage[index[t]])
      BY <1>8 DEF Take, At, Goto, local
    <2>2. \A u \in Threads : pc'[u] # "take"
      <3>1. \A u \in Threads : pc[u] = "take" => u = t
        BY <2>1 DEF IInv, Placed, Inside
      <3> QED
        BY <2>1, <3>1 DEF IInv, TypeInv, TypeOK
    <2>3. Taken' = Taken
      BY <2>1, <2>2, TakenNow
    <2>4. Queued' = Queued /\ Slots' = Slots
      BY <2>1, QueuedStays DEF Slots, Unbuffered
    <2> QED
      BY <2>1, <2>3, <2>4 DEF Queue!qvars
  <1>9. ASSUME NEW t \in Threads, Close(t) PROVE Queue!Next
    <2>1. /\ chan' = [chan EXCEPT !.closed = TRUE] /\ ~handle.destroyed
          /\ pc[t] = "lock" /\ pc' = [pc EXCEPT ![t] = "idle"]
          /\ owner = NoThread
          /\ handle' = [handle EXCEPT !.closed = TRUE]
          /\ UNCHANGED <<storage, index, got>>
      BY <1>9, CloseInv DEF Close, CanStart, At, Goto, local, history, IInv, Placed
    <2>2. /\ chan'.capacity = chan.capacity /\ chan'.length = chan.length
          /\ chan'.head = chan.head /\ chan'.closed
          /\ handle'.destroyed = handle.destroyed
      BY <2>1 DEF IInv, TypeInv, TypeOK
    <2>3. \A u \in Threads : pc'[u] # "take" /\ pc[u] # "take"
      BY <2>1, ChannelAssumption DEF IInv, TypeInv, TypeOK, Placed, Inside
    <2>4. Taken' = Taken
      BY <2>1, <2>3, TakenNow
    <2>5. Queued' = Queued /\ Slots' = Slots
      BY <2>1, <2>2, QueuedStays DEF Slots, Unbuffered
    <2> QED
      BY <2>1, <2>2, <2>4, <2>5 DEF Queue!Close, Queue!Next
  <1>10. ASSUME NEW t \in Threads, Destroy(t) PROVE Queue!Next
    <2>1. /\ UNCHANGED <<chan, storage, index, got, pc>>
          /\ \A u \in Threads : pc[u] = "idle"
          /\ handle' = [handle EXCEPT !.destroyed = TRUE]
      BY <1>10 DEF Destroy, local, At
    <2>2. handle'.destroyed
      BY <2>1 DEF IInv, TypeInv, TypeOK
    <2>3. Taken' = Taken
      BY <2>1, TakenNow
    <2>4. Queued' = <<>> /\ Slots' = Slots
      BY <2>1, <2>2 DEF Queued, Slots, Unbuffered
    <2> QED
      BY <2>1, <2>2, <2>3, <2>4 DEF Queue!Discard, Queue!Next
  <1>11. CASE UNCHANGED vars
    <2>1. UNCHANGED <<chan, storage, handle, index, got, pc>>
      BY <1>11 DEF vars, shared, local, history
    <2> QED
      BY <2>1, Stutters
  <1> QED
    BY <1>1, <1>2, <1>3, <1>4, <1>5, <1>6, <1>7, <1>8, <1>9, <1>10, <1>11 DEF Next, Work

(* The ring of slots, the two-phase send and receive and the copies taken    *)
(* outside the mutex implement the queue that MessageQueue specifies: what   *)
(* is received was sent, once and in order, into a channel that was open and *)
(* not full.                                                                 *)
THEOREM ChannelIsQueue == Disciplined => (Spec => IsQueue)
  <1> SUFFICES ASSUME Disciplined PROVE Spec => IsQueue
    OBVIOUS
  <1>1. IInv /\ [Next]_vars => IInv'
    BY NextInv
  <1>2. IInv /\ IInv' /\ [Next]_vars => [Queue!Next]_(Queue!qvars)
    BY QueueStep
  <1>3. Init => Queue!Init /\ IInv
    BY QueueInit, InitInv
  <1> QED
    BY <1>1, <1>2, <1>3, PTL DEF Spec, IsQueue, Queue!Spec
=============================================================================
