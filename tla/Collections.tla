----------------------------- MODULE Collections -----------------------------
(* Array, Queue, Deque and Heap of std/collections.tn: a block of slots, a    *)
(* byte per slot that says whether it holds a value, a length and, for the     *)
(* two that are rings, the slot of the first value.  The four classes share    *)
(* these fields, and `kind` says which one the program made.                   *)
(*                                                                             *)
(* A value whose type is copied has no owner and sets no byte; any other value *)
(* moves into its slot and out of it, and is destroyed by whoever holds it     *)
(* last.  `live` is the history of values that exist and that the collection   *)
(* was given; what it returns belongs to the caller and may be given again.    *)
EXTENDS Integers, Sequences, FiniteSets, Functions, FiniteSetsExt

CONSTANTS
    Values,         \* the values the program has
    Rank,           \* their order, for a heap
    Kinds,          \* which classes the program uses
    Capacities,     \* the capacities it asks for
    Copies,         \* bound: those it puts into a collection of copied values
    MaxLength,      \* bound: values in a collection at once, by class
    Absent,         \* undefined
    Junk            \* bits that are no value: never written, or moved away

ASSUME CollectionsConstants ==
    /\ Rank \in [Values -> Nat]
    /\ Kinds \subseteq {"Array", "Queue", "Deque", "Heap"}
    /\ Capacities \subseteq Nat
    /\ Copies \subseteq Values
    /\ MaxLength \in [Kinds -> Nat]

VARIABLES
    kind,       \* the class
    copied,     \* isCopy<T>(): values are copied, not moved
    memory,     \* the slots, and which of them are initialized
    capacity,
    length,
    head,       \* the slot of the first value; 0 unless the class is a ring
    cursor,     \* how far an ArrayIterator has come
    phase,      \* "open", "iterating" (moved into an iterator) or "gone"
    live,       \* history: the values that were moved in and exist
    outcome     \* history: the last call and its answer

rvars == <<kind, copied, memory, capacity, length, head, cursor, phase, live, outcome>>
unshaped == <<kind, copied, cursor, phase>>

Blank(n) == [slots |-> [i \in 0 .. n - 1 |-> Junk],
             initialized |-> [i \in 0 .. n - 1 |-> FALSE]]

\* tn_bytes_copy_to_at or storeElement: the value a slot holds is destroyed first
Put(m, i, v) == [slots |-> [m.slots EXCEPT ![i] = v],
                 initialized |-> [m.initialized EXCEPT ![i] = @ \/ ~copied]]
Overwritten(m, i) == IF m.initialized[i] THEN {m.slots[i]} ELSE {}

\* tn_bytes_copy_at or moveElement
MovedOut(m, i) == IF copied THEN m
               ELSE [slots |-> [m.slots EXCEPT ![i] = Junk],
                     initialized |-> [m.initialized EXCEPT ![i] = FALSE]]

\* dropInitializedElements over the first n slots
Initialized(m, n) == {i \in 0 .. n - 1 : m.initialized[i]}
Emptied(m, n) == [slots |-> [i \in DOMAIN m.slots |->
                                IF i \in Initialized(m, n) THEN Junk ELSE m.slots[i]],
                  initialized |-> [i \in DOMAIN m.slots |-> m.initialized[i] /\ i >= n]]
Destroyed(m, n) == {m.slots[i] : i \in Initialized(m, n)}

RowInit ==
    /\ kind \in Kinds
    /\ copied \in BOOLEAN
    /\ capacity \in Capacities
    /\ memory = Blank(capacity)
    /\ length = 0
    /\ head = 0
    /\ cursor = 0
    /\ phase = "open"
    /\ live = {}
    /\ outcome = <<"new">>

-----------------------------------------------------------------------------
(* Storage.  reserve doubles, or takes what is asked for if that is more, and  *)
(* the values move to the front of the new block in their order.               *)

Slot(i) == (head + i) % capacity

RehousedNoHead(n) ==    \* Mutant: the slots are taken as if the ring began at 0
    [slots |-> [i \in 0 .. n - 1 |-> IF i < length THEN memory.slots[i] ELSE Junk],
     initialized |-> [i \in 0 .. n - 1 |-> i < length /\ ~copied]]

Rehoused(n) ==
    [slots |-> [i \in 0 .. n - 1 |-> IF i < length THEN memory.slots[Slot(i)] ELSE Junk],
     initialized |-> [i \in 0 .. n - 1 |-> i < length /\ ~copied]]

Grown(minimum) == Max({minimum, IF capacity > 0 THEN capacity * 2 ELSE 1})

\* the block a value is about to be added to
Roomy == IF length = capacity
         THEN [memory |-> Rehoused(Grown(length + 1)), capacity |-> Grown(length + 1), head |-> 0]
         ELSE [memory |-> memory, capacity |-> capacity, head |-> head]

Resized(n) ==
    /\ memory' = Rehoused(n)
    /\ capacity' = n
    /\ head' = 0
    /\ outcome' = <<"resize">>
    /\ UNCHANGED <<length, live>>

Reserve(minimum) ==
    IF minimum <= capacity
    THEN outcome' = <<"resize">> /\ UNCHANGED <<memory, capacity, length, head, live>>
    ELSE Resized(Grown(minimum))

ShrinkToFit ==
    IF length = capacity
    THEN outcome' = <<"resize">> /\ UNCHANGED <<memory, capacity, length, head, live>>
    ELSE Resized(length)

Call(k) == kind = k /\ phase = "open" /\ UNCHANGED unshaped

ArrayReserve == Call("Array") /\ \E n \in Capacities : Reserve(n)
QueueReserve == Call("Queue") /\ \E n \in Capacities : Reserve(n)
DequeReserve == Call("Deque") /\ \E n \in Capacities : Reserve(n)
HeapReserve == Call("Heap") /\ \E n \in Capacities : Reserve(n)

ArrayShrink == Call("Array") /\ ShrinkToFit
QueueShrink == Call("Queue") /\ ShrinkToFit
DequeShrink == Call("Deque") /\ ShrinkToFit
HeapShrink == Call("Heap") /\ ShrinkToFit

-----------------------------------------------------------------------------
(* Putting values in and taking them out.                                      *)

\* what the caller may give: its own value is moved, a copy of it is not
Offered == IF copied THEN Copies ELSE Values \ live
Given(v) == IF copied THEN {} ELSE {v}

Add(v, r, i, front) ==
    /\ memory' = Put(r.memory, i, v)
    /\ capacity' = r.capacity
    /\ head' = front
    /\ length' = length + 1
    /\ live' = (live \ Overwritten(r.memory, i)) \cup Given(v)

AddLast(v) ==
    /\ length < MaxLength[kind]
    /\ LET r == Roomy IN Add(v, r, (r.head + length) % r.capacity, r.head)
    /\ outcome' = <<"addLast", v>>

ArrayPush == Call("Array") /\ \E v \in Offered : AddLast(v)
Enqueue == Call("Queue") /\ \E v \in Offered : AddLast(v)
PushBack == Call("Deque") /\ \E v \in Offered : AddLast(v)

Before(i, n) == IF i = 0 THEN n - 1 ELSE i - 1

PushFront ==
    /\ Call("Deque")
    /\ length < MaxLength[kind]
    /\ \E v \in Offered :
          LET r == Roomy
              front == IF length = 0 THEN 0 ELSE Before(r.head, r.capacity)
          IN  Add(v, r, front, front) /\ outcome' = <<"addFirst", v>>

\* nothing to take
None(i) ==
    /\ outcome' = <<"remove", i, Absent>>
    /\ UNCHANGED <<memory, capacity, length, head, live>>

\* the value of a slot leaves with the caller; n is its place in the row
TakeOut(i, n, front) ==
    /\ outcome' = <<"remove", n, memory.slots[i]>>
    /\ live' = live \ {memory.slots[i]}
    /\ head' = front
    /\ length' = length - 1
    /\ UNCHANGED capacity

TakeFirst == IF length = 0 THEN None(1)
             ELSE /\ TakeOut(head, 1, (head + 1) % capacity)
                  /\ memory' = MovedOut(memory, head)
TakeLast == IF length = 0 THEN None(1)
            ELSE /\ TakeOut(Slot(length - 1), length, head)
                 /\ memory' = MovedOut(memory, Slot(length - 1))

Dequeue == Call("Queue") /\ TakeFirst
PopFront == Call("Deque") /\ TakeFirst
PopBack == Call("Deque") /\ TakeLast

ClosedFlagsStay(m, i) ==    \* Mutant: the bytes do not move with the values
    LET last == length - 1
        shift(f) == [j \in DOMAIN f |-> IF i <= j /\ j < last THEN f[j + 1] ELSE f[j]]
    IN  [slots |-> IF copied THEN shift(m.slots) ELSE [shift(m.slots) EXCEPT ![last] = Junk],
         initialized |-> [m.initialized EXCEPT ![i] = FALSE]]

\* tn_bytes_move_at closes the gap that removeAt leaves, in both blocks
Closed(m, i) ==
    LET last == length - 1
        shift(f) == [j \in DOMAIN f |-> IF i <= j /\ j < last THEN f[j + 1] ELSE f[j]]
    IN  [slots |-> IF copied THEN shift(m.slots) ELSE [shift(m.slots) EXCEPT ![last] = Junk],
         initialized |-> [shift(m.initialized) EXCEPT ![last] = FALSE]]

RemoveAt(i) ==
    IF i >= length \/ (~copied /\ ~memory.initialized[i]) THEN None(i + 1)
    ELSE /\ TakeOut(i, i + 1, head)
         /\ memory' = Closed(IF copied THEN memory ELSE MovedOut(memory, i), i)

ArrayRemoveAt == Call("Array") /\ \E i \in 0 .. length : RemoveAt(i)
ArrayPop == Call("Array") /\ IF length = 0 THEN None(1) ELSE RemoveAt(length - 1)

\* set stores over the value at an index; a value it does not take is destroyed
ArraySet ==
    /\ Call("Array")
    /\ \E i \in 0 .. length, v \in Offered :
          IF i >= length
          THEN /\ outcome' = <<"replace", i + 1, Absent>>
               /\ UNCHANGED <<memory, live>>
          ELSE /\ outcome' = <<"replace", i + 1, v>>
               /\ memory' = Put(memory, i, v)
               /\ live' = (live \ Overwritten(memory, i)) \cup Given(v)
    /\ UNCHANGED <<capacity, length, head>>

-----------------------------------------------------------------------------
(* A heap keeps the value of each slot no less than that of its parent.  A     *)
(* sift swaps one value along a path of slots: the others on it move up by one *)
(* and the value ends where the path does.                                     *)

Less(v, w) == Rank[v] < Rank[w]
Parent(i) == (i - 1) \div 2

Rises(s, v, i) ==
    LET path[k \in 0 .. i] ==
            IF k = 0 \/ ~Less(v, s[Parent(k)]) THEN <<k>> ELSE <<k>> \o path[Parent(k)]
    IN  path[i]

Sinks(s, v, n) ==
    LET right(k) == 2 * k + 2 < n /\ Less(s[2 * k + 2], s[2 * k + 1])
        child(k) == IF right(k) THEN 2 * k + 2 ELSE 2 * k + 1
        path[k \in 0 .. n] ==
            IF 2 * k + 1 >= n \/ ~Less(s[child(k)], v) THEN <<k>> ELSE <<k>> \o path[child(k)]
    IN  path[0]

Sifted(s, path) ==
    [i \in DOMAIN s |->
        IF i \notin Range(path) THEN s[i]
        ELSE LET k == CHOOSE k \in DOMAIN path : path[k] = i
             IN  s[path[IF k = Len(path) THEN 1 ELSE k + 1]]]

HeapPush ==
    /\ Call("Heap")
    /\ length < MaxLength[kind]
    /\ \E v \in Offered :
          LET r == Roomy
              m == Put(r.memory, length, v)
          IN  /\ memory' = [m EXCEPT !.slots = Sifted(@, Rises(@, v, length))]
              /\ capacity' = r.capacity
              /\ live' = (live \ Overwritten(r.memory, length)) \cup Given(v)
              /\ outcome' = <<"addLast", v>>
    /\ length' = length + 1
    /\ UNCHANGED head

HeapTakeLeast ==
    IF length = 0 THEN None(1)
    ELSE LET final == length - 1
             v == memory.slots[final]
             m == IF final = 0 THEN MovedOut(memory, 0)
                  ELSE Put(MovedOut(MovedOut(memory, 0), final), 0, v)
         IN  /\ TakeOut(0, 1, head)
             /\ memory' = [m EXCEPT !.slots = IF final = 0 THEN @
                                             ELSE Sifted(@, Sinks(@, v, final))]

HeapPop == Call("Heap") /\ HeapTakeLeast

-----------------------------------------------------------------------------
(* Looking.  atMut and peek answer as at does.                                 *)

Look(n, there, i) ==
    /\ outcome' = <<"look", n, IF there THEN memory.slots[i] ELSE Absent>>
    /\ UNCHANGED <<memory, capacity, length, head, live>>

ArrayAt == Call("Array") /\ \E i \in 0 .. length : Look(i + 1, i < length, i)
QueuePeek == Call("Queue") /\ Look(1, length # 0, head)
DequePeek == Call("Deque") /\ Look(1, length # 0, head)
DequePeekBack == Call("Deque") /\ IF length = 0 THEN Look(1, FALSE, 0)
                                  ELSE Look(length, TRUE, Slot(length - 1))
HeapPeek == Call("Heap") /\ Look(1, length # 0, 0)

ArraySlice ==
    /\ Call("Array")
    /\ outcome' = <<"slice", [i \in 1 .. length |-> memory.slots[i - 1]]>>
    /\ UNCHANGED <<memory, capacity, length, head, live>>

-----------------------------------------------------------------------------
(* Emptying, iterating and destroying.  An array drops the values of its first *)
(* `length` slots, the other classes every value of the block.                 *)

Drop(n) == memory' = Emptied(memory, n) /\ live' = live \ Destroyed(memory, n)

Cleared(n) ==
    /\ Drop(n)
    /\ length' = 0
    /\ head' = 0
    /\ outcome' = <<"clear">>
    /\ UNCHANGED capacity

ArrayClear == Call("Array") /\ Cleared(length)
QueueClear == Call("Queue") /\ Cleared(capacity)
DequeClear == Call("Deque") /\ Cleared(capacity)
HeapClear == Call("Heap") /\ Cleared(capacity)

IntoIterator ==
    /\ phase = "open"
    /\ phase' = "iterating"
    /\ UNCHANGED <<kind, copied, memory, capacity, length, head, cursor, live, outcome>>

Step(k) == kind = k /\ phase = "iterating" /\ UNCHANGED <<kind, copied, phase>>

\* takeAt leaves the length as it is, and a hole where the value was
ArrayIteratorNext ==
    /\ Step("Array")
    /\ cursor <= length
    /\ cursor' = cursor + 1
    /\ IF cursor >= length THEN None(1)
       ELSE /\ outcome' = <<"remove", 1, memory.slots[cursor]>>
            /\ memory' = MovedOut(memory, cursor)
            /\ live' = live \ {memory.slots[cursor]}
            /\ UNCHANGED <<capacity, length, head>>

QueueIteratorNext == Step("Queue") /\ UNCHANGED cursor /\ TakeFirst
DequeIteratorNext == Step("Deque") /\ UNCHANGED cursor /\ TakeFirst
HeapIteratorNext == Step("Heap") /\ UNCHANGED cursor /\ HeapTakeLeast

\* [Symbol.dispose], of the collection or with its iterator
Disposed(n) ==
    /\ phase # "gone"
    /\ phase' = "gone"
    /\ Drop(n)
    /\ outcome' = <<"clear">>
    /\ UNCHANGED <<kind, copied, capacity, length, head, cursor>>

ArrayDispose == kind = "Array" /\ Disposed(length)
QueueDispose == kind = "Queue" /\ Disposed(capacity)
DequeDispose == kind = "Deque" /\ Disposed(capacity)
HeapDispose == kind = "Heap" /\ Disposed(capacity)

RowNext ==
    \/ ArrayReserve \/ QueueReserve \/ DequeReserve \/ HeapReserve
    \/ ArrayShrink \/ QueueShrink \/ DequeShrink \/ HeapShrink
    \/ ArrayPush \/ Enqueue \/ PushBack \/ PushFront \/ HeapPush
    \/ Dequeue \/ PopFront \/ PopBack \/ ArrayRemoveAt \/ ArrayPop \/ HeapPop
    \/ ArraySet \/ ArrayAt \/ ArraySlice
    \/ QueuePeek \/ DequePeek \/ DequePeekBack \/ HeapPeek
    \/ ArrayClear \/ QueueClear \/ DequeClear \/ HeapClear
    \/ IntoIterator
    \/ ArrayIteratorNext \/ QueueIteratorNext \/ DequeIteratorNext \/ HeapIteratorNext
    \/ ArrayDispose \/ QueueDispose \/ DequeDispose \/ HeapDispose

RowSpec == RowInit /\ [][RowNext]_rvars

-----------------------------------------------------------------------------

\* A value that is not copied has exactly one place: the slots whose byte is set
\* hold the values that exist, each once, whatever was removed, overwritten, grown,
\* shrunk, wrapped or cleared before; a collection that is gone has destroyed all.
OwnedOnce ==
    LET held == {i \in DOMAIN memory.slots : memory.initialized[i]}
    IN  /\ {memory.slots[i] : i \in held} = live
        /\ Cardinality(held) = Cardinality(live)
        /\ phase = "gone" => live = {}

\* The answers are those of a row of values, or of a heap: Container, where the row
\* is the window of `length` slots from `head`, or what an ArrayIterator has left.
Row == CASE phase = "gone" -> <<>>
         [] kind = "Array" /\ phase = "iterating" ->
               [i \in 1 .. Max({0, length - cursor}) |-> memory.slots[cursor + i - 1]]
         [] OTHER -> [i \in 1 .. length |-> memory.slots[Slot(i - 1)]]

Promised == INSTANCE Container WITH sorted <- kind = "Heap", contents <- Row
IsContainer == Promised!Spec
=============================================================================
