------------------------------ MODULE TypedTable -----------------------------
(* The hash table of std/collections.tn and the classes around it: Map and     *)
(* Set, and with `ordered` OrderedMap and OrderedSet.  A slot is empty (0),     *)
(* full (1) or a tombstone (2); a key is looked for from the slot of its hash   *)
(* until the first empty one.  Keys and values move into slots and out of them, *)
(* with a byte each that says whether there is one.                             *)
(*                                                                              *)
(* Two keys may be equal and yet be two values to destroy: a key is a record    *)
(* of what Equal and Hash see, `is`, and of which copy it is.  The program has  *)
(* two values for each key, so that one can replace the other.  Map and Set     *)
(* hold copies of the table's length and capacity, `shown`.                     *)
EXTENDS Integers, FiniteSets, FiniteSetsExt

CONSTANTS
    Keys,           \* keys up to Equal
    HashOf,         \* Hash.hash of each key
    TableCapacities,    \* the capacities the program asks for
    MaxCapacity,    \* bound: insertion stops where the table would pass it,
    MaxSequence,    \* bound: or an ordered one would number more keys
    Undefined,      \* undefined
    Vacant          \* bits that are no value

ASSUME TypedTableConstants ==
    /\ HashOf \in [Keys -> Nat]
    /\ TableCapacities \subseteq Nat
    /\ MaxCapacity \in Nat
    /\ MaxSequence \in Nat

VARIABLES
    ordered,        \* the class is OrderedMap or OrderedSet
    table,          \* slots and counters
    shown,          \* the length and capacity fields of the class around it
    stage,          \* "open", "iterating" or "gone"
    position,       \* of the iterator
    owned,          \* history: keys and values that were moved in and exist
    answer          \* history: the last call and its answer

tvars == <<ordered, table, shown, stage, position, owned, answer>>

Instances == [is : Keys, copy : 1 .. 2]
Payloads == [of : Keys, copy : 1 .. 2]

Empty(n) ==
    LET every(x) == [i \in 0 .. n - 1 |-> x]
    IN  [capacity |-> n, length |-> 0, used |-> 0, nextSequence |-> 0,
         states |-> every(0), keys |-> every(Vacant), values |-> every(Vacant),
         keyInitialized |-> every(FALSE), valueInitialized |-> every(FALSE),
         sequence |-> every(0)]

Constructed(n) == Empty(Max({n, 8}))

Show(t) == [length |-> t.length, capacity |-> t.capacity]

TableInit ==
    /\ ordered \in BOOLEAN
    /\ \E n \in TableCapacities : table = Constructed(n)
    /\ shown = Show(table)
    /\ stage = "open"
    /\ position = 0
    /\ owned = {}
    /\ answer = <<"new">>

-----------------------------------------------------------------------------
(* Probing.                                                                    *)

\* a mask of capacity - 1 where that is a power of two, a remainder where it is not:
\* both are the remainder
startIndex(t, k) == HashOf[k] % t.capacity

slotForStopsAtTombstone(t, k) ==    \* Mutant: a removed slot ends the search
    LET probe(j) == (startIndex(t, k) + j) % t.capacity
        found == {j \in 0 .. t.capacity - 1 :
                     \/ t.states[probe(j)] # 1
                     \/ t.keys[probe(j)].is = k}
    IN  IF found = {} THEN t.capacity ELSE probe(Min(found))

\* The slot of a key that is there, else the first tombstone passed, else the empty
\* slot that ended the search, else, in a table without one, its capacity.
slotFor(t, k) ==
    LET probe(j) == (startIndex(t, k) + j) % t.capacity
        steps == 0 .. t.capacity - 1
        found == {j \in steps : \/ t.states[probe(j)] = 0
                                \/ t.states[probe(j)] = 1 /\ t.keys[probe(j)].is = k}
        end == IF found = {} THEN t.capacity ELSE Min(found)
        tombstones == {j \in steps : j < end /\ t.states[probe(j)] = 2}
    IN  IF end < t.capacity /\ t.states[probe(end)] = 1 THEN probe(end)
        ELSE IF tombstones # {} THEN probe(Min(tombstones))
        ELSE IF end < t.capacity THEN probe(end)
        ELSE t.capacity

Holds(t, i) == i < t.capacity /\ t.states[i] = 1

\* storeElement of a key, of a value, and the byte that says full
Filled(t, i, key, value, order) ==
    [t EXCEPT !.states[i] = 1, !.keys[i] = key, !.values[i] = value,
              !.keyInitialized[i] = TRUE, !.valueInitialized[i] = TRUE,
              !.sequence[i] = IF ordered THEN order ELSE @]

VacatedKeepsKey(t, i) ==    \* Mutant: the key is not taken out
    [t EXCEPT !.states[i] = 2, !.values[i] = Vacant, !.valueInitialized[i] = FALSE,
              !.length = @ - 1]

\* moveElement or dropElement of both; the slot is a tombstone from then on
Vacated(t, i) ==
    [t EXCEPT !.states[i] = 2, !.keys[i] = Vacant, !.values[i] = Vacant,
              !.keyInitialized[i] = FALSE, !.valueInitialized[i] = FALSE,
              !.length = @ - 1]

\* what slot i of t holds, if it is full, into the slot its key is looked for
Rehomed(t, new, i) ==
    IF t.states[i] # 1 THEN new
    ELSE [Filled(new, slotFor(new, t.keys[i].is), t.keys[i], t.values[i], t.sequence[i])
            EXCEPT !.used = @ + 1]

\* into a new block of n: moved[m] is what the first m slots make of it
resize(t, n) ==
    LET start == [Empty(n) EXCEPT !.length = t.length, !.nextSequence = t.nextSequence]
        moved[m \in 0 .. t.capacity] == IF m = 0 THEN start ELSE Rehomed(t, moved[m - 1], m - 1)
    IN  moved[t.capacity]

Doubled(c, minimum) ==
    LET doubled[d \in c .. 2 * minimum] == IF d >= minimum THEN d ELSE doubled[2 * d]
    IN  doubled[c]

\* tombstones count as used, and those an insertion fills count again
Crowded(t) == t.used + 1 >= t.capacity - t.capacity \div 4

ensureInsertCapacity(t) == IF Crowded(t) THEN resize(t, t.capacity * 2) ELSE t

-----------------------------------------------------------------------------

TableCall == stage = "open" /\ UNCHANGED <<ordered, stage, position>>

\* what the caller has to give: a copy of the key that the table does not own
Spare(k) == CHOOSE key \in Instances : key.is = k /\ key \notin owned
SpareValue(k) == CHOOSE v \in Payloads : v.of = k /\ v \notin owned

\* set, add: a key that is there stays, and the one that came is destroyed
insertPrehashed ==
    /\ TableCall
    /\ \E k \in Keys :
        LET t == ensureInsertCapacity(table)
            i == slotFor(t, k)
            key == Spare(k)
            value == SpareValue(k)
        IN  /\ t.capacity <= MaxCapacity
            /\ t.nextSequence < MaxSequence
            /\ IF Holds(t, i)
               THEN /\ table' = [t EXCEPT !.values[i] = value]
                    /\ owned' = (owned \ {t.values[i]}) \cup {value}
                    /\ answer' = <<"insert", FALSE>>
               ELSE /\ table' = [Filled(t, i, key, value, t.nextSequence)
                                   EXCEPT !.length = @ + 1, !.used = @ + 1,
                                          !.nextSequence = IF ordered THEN @ + 1 ELSE @]
                    /\ owned' = owned \cup {key, value}
                    /\ answer' = <<"insert", TRUE>>
    /\ shown' = Show(table')

\* get, getMut, has; the answer for every key at once
getPrehashed ==
    /\ TableCall
    /\ answer' = <<"find", [k \in Keys |-> LET i == slotFor(table, k)
                                           IN  IF Holds(table, i) THEN table.values[i] ELSE Undefined]>>
    /\ UNCHANGED <<table, shown, owned>>

\* delete: the key is destroyed, the value returned; only the length is shown anew
remove ==
    /\ TableCall
    /\ \E k \in Keys :
          LET i == slotFor(table, k)
          IN  IF Holds(table, i)
              THEN /\ table' = Vacated(table, i)
                   /\ owned' = owned \ {table.keys[i], table.values[i]}
                   /\ answer' = <<"remove", k, table.values[i]>>
              ELSE /\ answer' = <<"remove", k, Undefined>>
                   /\ UNCHANGED <<table, owned>>
    /\ shown' = [shown EXCEPT !.length = table'.length]

Owns(t) == {t.keys[i] : i \in {j \in DOMAIN t.keys : t.keyInitialized[j]}}
              \cup {t.values[i] : i \in {j \in DOMAIN t.values : t.valueInitialized[j]}}

clear ==
    /\ TableCall
    /\ table' = Empty(table.capacity)
    /\ owned' = owned \ Owns(table)
    /\ shown' = [shown EXCEPT !.length = 0]
    /\ answer' = <<"clear">>

reserve ==
    /\ TableCall
    /\ \E n \in TableCapacities :
          table' = IF n <= table.capacity THEN table
                   ELSE resize(table, Doubled(table.capacity, n))
    /\ shown' = [shown EXCEPT !.capacity = table'.capacity]
    /\ answer' = <<"resize">>
    /\ UNCHANGED owned

shrinkToFit ==
    /\ TableCall
    /\ LET target == Max({table.length * 2, 8})
       IN  table' = IF target < table.capacity THEN resize(table, target) ELSE table
    /\ shown' = [shown EXCEPT !.capacity = table'.capacity]
    /\ answer' = <<"resize">>
    /\ UNCHANGED owned

intoIterator ==
    /\ stage = "open"
    /\ stage' = "iterating"
    /\ UNCHANGED <<ordered, table, shown, position, owned, answer>>

Full(t) == {i \in DOMAIN t.states : t.states[i] = 1}

\* the next full slot from the position, or the one inserted first from the position on
Selected(t) ==
    LET full == Full(t)
    IN  IF ordered
        THEN {i \in full : /\ t.sequence[i] >= position
                           /\ \A j \in full : t.sequence[j] >= position => t.sequence[i] <= t.sequence[j]}
        ELSE {i \in full : /\ i >= position
                           /\ \A j \in full : j >= position => i <= j}

nextEntry ==
    /\ stage = "iterating"
    /\ IF Selected(table) = {}
       THEN /\ answer' = <<"entry", Undefined>>
            /\ position' = IF ordered THEN position ELSE table.capacity
            /\ UNCHANGED <<table, owned>>
       ELSE \E i \in Selected(table) :
               /\ answer' = <<"entry", <<table.keys[i].is, table.values[i]>> >>
               /\ position' = 1 + IF ordered THEN table.sequence[i] ELSE i
               /\ table' = Vacated(table, i)
               /\ owned' = owned \ {table.keys[i], table.values[i]}
    /\ UNCHANGED <<ordered, shown, stage>>

dispose ==
    /\ stage # "gone"
    /\ stage' = "gone"
    /\ table' = Empty(table.capacity)
    /\ owned' = owned \ Owns(table)
    /\ answer' = <<"clear">>
    /\ UNCHANGED <<ordered, shown, position>>

TableNext ==
    \/ insertPrehashed \/ getPrehashed \/ remove \/ clear
    \/ reserve \/ shrinkToFit
    \/ intoIterator \/ nextEntry \/ dispose

TableSpec == TableInit /\ [][TableNext]_tvars

-----------------------------------------------------------------------------

\* Every search ends: a table always has an empty slot, whatever mix of insertions,
\* removals, refilled tombstones, shrinking and clearing it went through; and the
\* slots that are full are those that own a key and a value, each owned once.
SearchEnds ==
    /\ \E i \in DOMAIN table.states : table.states[i] = 0
    /\ table.used >= Cardinality({i \in DOMAIN table.states : table.states[i] # 0})
TableOwnsOnce ==
    /\ Owns(table) = owned
    /\ Cardinality(owned) = 2 * Cardinality(Full(table))
    /\ \A i \in DOMAIN table.states : /\ (table.states[i] = 1) = table.keyInitialized[i]
                                      /\ (table.states[i] = 1) = table.valueInitialized[i]
    /\ stage = "gone" => owned = {}
TableSound == SearchEnds /\ TableOwnsOnce

\* The answers are those of a dictionary: Dictionary, whose keys are those of the full
\* slots, each with its value, and which in an ordered table come one before another as
\* their sequence numbers do.
Entries(t) == {[key |-> t.keys[i], value |-> t.values[i],
                order |-> IF ordered THEN t.sequence[i] ELSE 0] : i \in Full(t)}
ValueOf(S) == [k \in {e.key.is : e \in S} |-> (CHOOSE e \in S : e.key.is = k).value]
Earlier(S) == {p \in Keys \X Keys : \E d, e \in S : /\ p = <<d.key.is, e.key.is>>
                                                     /\ d.order < e.order}

Promise == INSTANCE Dictionary
                WITH Values <- Payloads, Absent <- Undefined, value <- ValueOf(Entries(table)),
                     earlier <- Earlier(Entries(table)), size <- shown.length
IsDictionary == Promise!Spec
=============================================================================
