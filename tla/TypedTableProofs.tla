--------------------------- MODULE TypedTableProofs --------------------------
(* Proofs about TypedTable, for any keys, hashes and capacities: a table always *)
(* has an empty slot, its full slots own each value that was moved in once, and *)
(* it gives the answers of Dictionary.  The invariant is the one of open        *)
(* addressing with tombstones: no empty slot lies between the first slot of a   *)
(* key's search and the slot the key is in.                                     *)
EXTENDS TypedTable, FiniteSetTheorems, WellFoundedInduction, TLAPS

-----------------------------------------------------------------------------
(* The inductive invariant.                                                    *)

Slots(t) == 0 .. t.capacity - 1

TableOf(c) ==
    [capacity : {c}, length : Nat, used : Nat, nextSequence : Nat,
     states : [0 .. c - 1 -> 0 .. 2],
     keys : [0 .. c - 1 -> Instances \cup {Vacant}],
     values : [0 .. c - 1 -> Payloads \cup {Vacant}],
     keyInitialized : [0 .. c - 1 -> BOOLEAN],
     valueInitialized : [0 .. c - 1 -> BOOLEAN],
     sequence : [0 .. c - 1 -> Nat]]
Typed(t) == t.capacity \in Nat \ {0} /\ t \in TableOf(t.capacity)

\* a full slot holds a key and the value of that key, any other slot neither
Kept(t) ==
    \A i \in Slots(t) :
        /\ (t.states[i] = 1) = t.keyInitialized[i]
        /\ (t.states[i] = 1) = t.valueInitialized[i]
        /\ t.states[i] = 1 => /\ t.keys[i] \in Instances
                              /\ t.values[i] \in Payloads
                              /\ t.values[i].of = t.keys[i].is

Unique(t) == \A i, j \in Full(t) : t.keys[i].is = t.keys[j].is => i = j

\* where a search for k looks, and the slots it comes to before an empty one
Probe(t, k, j) == (startIndex(t, k) + j) % t.capacity
Reaches(t, k, i) == \E j \in Slots(t) :
                       /\ Probe(t, k, j) = i
                       /\ \A h \in Slots(t) : h < j => t.states[Probe(t, k, h)] # 0
Found(t) == \A i \in Full(t) : Reaches(t, t.keys[i].is, i)

Numbered(t) == ordered => \A i, j \in Full(t) : /\ t.sequence[i] < t.nextSequence
                                                /\ t.sequence[i] = t.sequence[j] => i = j

\* what counts as used is at least what is not empty, and less than all slots
NonEmpty(t) == {i \in DOMAIN t.states : t.states[i] # 0}
Room(t) == t.used < t.capacity /\ Cardinality(NonEmpty(t)) <= t.used

Well(t) == Typed(t) /\ Kept(t) /\ Unique(t) /\ Found(t) /\ Numbered(t) /\ Room(t)

\* what is left to an iterator lies at its position or after it
Ahead == \A i \in Full(table) : position <= IF ordered THEN table.sequence[i] ELSE i

TableInv ==
    /\ ordered \in BOOLEAN
    /\ Well(table)
    /\ table.length = Cardinality(Full(table))
    /\ owned = Owns(table)
    /\ shown \in [length : Nat, capacity : Nat]
    /\ stage \in {"open", "iterating", "gone"}
    /\ stage = "open" => shown.length = table.length /\ position = 0
    /\ stage = "gone" => Full(table) = {}
    /\ position \in Nat
    /\ Ahead

-----------------------------------------------------------------------------
(* Numbers.                                                                    *)

\* A set of natural numbers has a least one, and Min is that.
LEMMA LeastNumber ==
    ASSUME NEW S, S \subseteq Nat, S # {}
    PROVE  \E n \in S : \A m \in S : n <= m
  <1> DEFINE R == {ss \in Nat \X Nat : ss[1] < ss[2]}
  <1>1. IsWellFoundedOn(R, Nat)
    BY NatLessThanWellFounded, Zenon DEF OpToRel
  <1>2. \A x, y \in Nat : <<y, x>> \in R <=> y < x
    OBVIOUS
  <1> HIDE DEF R
  <1>3. \E n \in S : \A m \in S : ~(<<m, n>> \in R)
    BY <1>1, WFMin
  <1>4. \A x, y \in Nat : ~(y < x) => x <= y
    OBVIOUS
  <1> QED
    BY <1>2, <1>3, <1>4

LEMMA MinIs ==
    ASSUME NEW S, S \subseteq Nat, S # {}
    PROVE  Min(S) \in S /\ \A m \in S : Min(S) <= m
  <1>1. \E n \in S : \A m \in S : n <= m
    BY LeastNumber, Zenon
  <1> QED
    BY <1>1, Zenon DEF Min

LEMMA MaxIs ==
    ASSUME NEW m \in Nat, NEW n \in Nat
    PROVE  Max({m, n}) = IF m >= n THEN m ELSE n
  <1>1. \E x \in {m, n} : \A y \in {m, n} : x >= y
    OBVIOUS
  <1>2. Max({m, n}) \in {m, n} /\ \A y \in {m, n} : Max({m, n}) >= y
    BY <1>1, Zenon DEF Max
  <1> QED
    BY <1>2

\* A block has as many slots as it is long.
LEMMA SlotsAre ==
    ASSUME NEW c \in Nat \ {0}
    PROVE  IsFiniteSet(0 .. c - 1) /\ Cardinality(0 .. c - 1) = c
  <1>1. 0 \in Int /\ c - 1 \in Int /\ ~(0 > c - 1) /\ (c - 1) - 0 + 1 = c
    OBVIOUS
  <1>2. Cardinality(0 .. c - 1) = IF 0 > c - 1 THEN 0 ELSE (c - 1) - 0 + 1
    BY <1>1, FS_Interval
  <1> QED
    BY <1>1, <1>2, FS_Interval

\* Around a ring of c slots, from slot h on: each step ends in the ring, and each slot
\* is come to.
LEMMA RingIs ==
    ASSUME NEW c \in Nat \ {0}, NEW h \in 0 .. c - 1
    PROVE  /\ \A j \in 0 .. c - 1 : (h + j) % c \in 0 .. c - 1
           /\ \A i \in 0 .. c - 1 : \E j \in 0 .. c - 1 : (h + j) % c = i
  <1>1. ASSUME NEW a \in Nat, a < 2 * c PROVE a % c = IF a < c THEN a ELSE a - c
    BY <1>1
  <1>2. ASSUME NEW j \in 0 .. c - 1
        PROVE  (h + j) % c = IF h + j < c THEN h + j ELSE h + j - c
    <2>1. h + j \in Nat /\ h + j < 2 * c
      OBVIOUS
    <2> QED
      BY <1>1, <2>1
  <1>3. \A j \in 0 .. c - 1 : (h + j) % c \in 0 .. c - 1
    <2> SUFFICES ASSUME NEW j \in 0 .. c - 1 PROVE (h + j) % c \in 0 .. c - 1
      OBVIOUS
    <2>1. (h + j) % c = IF h + j < c THEN h + j ELSE h + j - c
      BY <1>2
    <2> QED
      BY <2>1
  <1>4. ASSUME NEW i \in 0 .. c - 1 PROVE \E j \in 0 .. c - 1 : (h + j) % c = i
    <2> DEFINE j == IF i >= h THEN i - h ELSE i - h + c
    <2>1. j \in 0 .. c - 1
      OBVIOUS
    <2>2. h + j = IF i >= h THEN i ELSE i + c
      OBVIOUS
    <2>3. (h + j) % c = i
      BY <1>2, <2>1, <2>2
    <2> QED
      BY <2>1, <2>3
  <1> QED
    BY <1>3, <1>4

-----------------------------------------------------------------------------
(* Searching.                                                                  *)

LEMMA ProbeIs ==
    ASSUME NEW t, t.capacity \in Nat \ {0}, NEW k \in Keys
    PROVE  /\ \A j \in Slots(t) : Probe(t, k, j) \in Slots(t)
           /\ \A i \in Slots(t) : \E j \in Slots(t) : Probe(t, k, j) = i
  <1> DEFINE c == t.capacity
             h == startIndex(t, k)
  <1>1. HashOf[k] \in Nat
    BY TypedTableConstants
  <1>2. h \in 0 .. c - 1
    BY <1>1 DEF startIndex
  <1>3. c \in Nat \ {0}
    OBVIOUS
  <1>4. \A j : Probe(t, k, j) = (h + j) % c
    BY Zenon DEF Probe
  <1>5. Slots(t) = 0 .. c - 1
    BY Zenon DEF Slots
  <1> HIDE DEF c, h
  <1>6. /\ \A j \in 0 .. c - 1 : (h + j) % c \in 0 .. c - 1
        /\ \A i \in 0 .. c - 1 : \E j \in 0 .. c - 1 : (h + j) % c = i
    BY <1>2, <1>3, RingIs, Zenon
  <1> QED
    BY <1>4, <1>5, <1>6, Zenon

\* A table with room has an empty slot.
LEMMA RoomIs ==
    ASSUME NEW t, Typed(t), Room(t)
    PROVE  \E e \in Slots(t) : t.states[e] = 0
  <1>1. t.capacity \in Nat \ {0} /\ t.used \in Nat /\ t.states \in [Slots(t) -> 0 .. 2]
    BY DEF Typed, TableOf, Slots
  <1>2. IsFiniteSet(Slots(t)) /\ Cardinality(Slots(t)) = t.capacity
    BY <1>1, SlotsAre, Zenon DEF Slots
  <1>3. SUFFICES ASSUME \A e \in Slots(t) : t.states[e] # 0 PROVE FALSE
    OBVIOUS
  <1>4. NonEmpty(t) = Slots(t)
    BY <1>1, <1>3 DEF NonEmpty
  <1> QED
    BY <1>1, <1>2, <1>4 DEF Room

\* A search ends in the slot of the key, or else, when no full slot has it, in a slot that
\* is not full and that a search for the key comes to.
Ends(t, k, i) ==
    /\ i \in Slots(t)
    /\ t.states[i] = 1 => t.keys[i].is = k
    /\ t.states[i] # 1 => /\ \A j \in Full(t) : t.keys[j].is # k
                          /\ Reaches(t, k, i)

LEMMA SlotForIs ==
    ASSUME NEW t, Typed(t), Found(t), NEW k \in Keys,
           \E e \in Slots(t) : t.states[e] = 0
    PROVE  Ends(t, k, slotFor(t, k))
  <1> DEFINE c == t.capacity
             steps == 0 .. c - 1
             probe(j) == (startIndex(t, k) + j) % c
             found == {j \in steps : \/ t.states[probe(j)] = 0
                                     \/ t.states[probe(j)] = 1 /\ t.keys[probe(j)].is = k}
             end == Min(found)
             tombstones == {j \in steps : j < end /\ t.states[probe(j)] = 2}
  <1>1. /\ c \in Nat \ {0} /\ t.states \in [Slots(t) -> 0 .. 2] /\ Slots(t) = steps
        /\ t.capacity \in Nat \ {0}
    BY DEF Typed, TableOf, Slots
  <1>2. \A j : probe(j) = Probe(t, k, j)
    BY DEF Probe
  <1>3. /\ \A j \in steps : probe(j) \in steps
        /\ \A i \in steps : \E j \in steps : probe(j) = i
    <2>1. /\ \A j \in Slots(t) : Probe(t, k, j) \in Slots(t)
          /\ \A i \in Slots(t) : \E j \in Slots(t) : Probe(t, k, j) = i
      BY <1>1, ProbeIs
    <2> QED
      BY <1>1, <1>2, <2>1, Zenon
  <1> HIDE DEF probe
  <1>4. steps \subseteq Nat /\ found \subseteq steps /\ tombstones \subseteq steps
    BY <1>1
  <1>5. found # {}
    BY <1>1, <1>3
  <1>6. end \in found /\ \A j \in found : end <= j
    BY <1>4, <1>5, MinIs
  <1>7. slotFor(t, k) = IF end < c /\ t.states[probe(end)] = 1 THEN probe(end)
                        ELSE IF tombstones # {} THEN probe(Min(tombstones))
                        ELSE IF end < c THEN probe(end) ELSE c
    BY <1>5, Zenon DEF slotFor, probe
  <1>8. tombstones # {} => Min(tombstones) \in tombstones
    BY <1>4, MinIs
  <1> DEFINE m == Min(tombstones)
  <1>9. /\ end \in steps
        /\ \/ t.states[probe(end)] = 0
           \/ t.states[probe(end)] = 1 /\ t.keys[probe(end)].is = k
        /\ tombstones # {} => m \in steps /\ m < end /\ t.states[probe(m)] = 2
    <2>1. /\ end \in steps
          /\ \/ t.states[probe(end)] = 0
             \/ t.states[probe(end)] = 1 /\ t.keys[probe(end)].is = k
      <3>1. end \in found
        BY <1>6
      <3> HIDE DEF end
      <3> QED
        BY <3>1
    <2>2. tombstones # {} => m \in steps /\ m < end /\ t.states[probe(m)] = 2
      <3> HIDE DEF end, m
      <3> QED
        BY <1>8 DEF m
    <2> QED
      BY <2>1, <2>2
  <1>10. \A j \in steps : t.states[probe(j)] = 0 => end <= j
    BY <1>6
  <1>11. \A j \in steps : t.states[probe(j)] = 1 /\ t.keys[probe(j)].is = k => end <= j
    BY <1>6
  <1> HIDE DEF end, found, tombstones, m
  <1>12. \A j \in steps : j < end => t.states[probe(j)] # 0
    BY <1>9, <1>10
  <1>13. ASSUME NEW i \in Full(t), t.keys[i].is = k PROVE t.states[probe(end)] = 1
    <2>1. i \in steps /\ t.states[i] = 1
      BY <1>1, <1>13 DEF Full
    <2>2. Reaches(t, k, i)
      BY <1>13, Zenon DEF Found
    <2>3. PICK j \in steps : probe(j) = i /\ \A h \in steps : h < j => t.states[probe(h)] # 0
      BY <1>1, <1>2, <2>2, Zenon DEF Reaches
    <2>4. end <= j
      BY <1>11, <1>13, <2>1, <2>3, Zenon
    <2>5. CASE end = j
      BY <2>1, <2>3, <2>5
    <2>6. CASE end # j
      <3>1. end < j
        BY <1>9, <2>4, <2>6
      <3>2. t.states[probe(end)] # 0
        BY <1>9, <2>3, <3>1, Zenon
      <3> QED
        BY <1>9, <3>2, Zenon
    <2> QED
      BY <2>5, <2>6
  <1>14. end < c
    BY <1>1, <1>9
  <1>15. CASE t.states[probe(end)] = 1
    <2>1. slotFor(t, k) = probe(end)
      BY <1>7, <1>14, <1>15, Zenon
    <2>2. t.keys[probe(end)].is = k
      BY <1>9, <1>15
    <2>3. probe(end) \in Slots(t)
      BY <1>1, <1>3, <1>9, Zenon
    <2> QED
      BY <1>15, <2>1, <2>2, <2>3, Zenon DEF Ends
  <1>16. CASE t.states[probe(end)] # 1
    <2>1. \A j \in Full(t) : t.keys[j].is # k
      BY <1>13, <1>16, Zenon
    <2>2. ASSUME NEW j \in steps, t.states[probe(j)] # 1,
                 \A h \in steps : h < j => t.states[probe(h)] # 0
          PROVE  Ends(t, k, probe(j))
      <3>1. probe(j) \in Slots(t)
        BY <1>1, <1>3, Zenon
      <3>2. Reaches(t, k, probe(j))
        BY <1>1, <1>2, <2>2, Zenon DEF Reaches
      <3> QED
        BY <2>1, <2>2, <3>1, <3>2, Zenon DEF Ends
    <2>3. CASE tombstones # {}
      <3>1. slotFor(t, k) = probe(m)
        BY <1>7, <1>16, <2>3, Zenon DEF m
      <3>2. t.states[probe(m)] # 1
        BY <1>9, <2>3
      <3>3. \A h \in steps : h < m => t.states[probe(h)] # 0
        BY <1>9, <1>12, <2>3
      <3> QED
        BY <1>9, <2>2, <2>3, <3>1, <3>2, <3>3, Zenon
    <2>4. CASE tombstones = {}
      <3>1. slotFor(t, k) = probe(end)
        BY <1>7, <1>14, <1>16, <2>4, Zenon
      <3> QED
        BY <1>9, <1>12, <1>16, <2>2, <3>1, Zenon
    <2> QED
      BY <2>3, <2>4
  <1> QED
    BY <1>15, <1>16

-----------------------------------------------------------------------------
(* Filling a slot, vacating it, replacing its value.                           *)

EntryOf(t, i) == [key |-> t.keys[i], value |-> t.values[i],
                  order |-> IF ordered THEN t.sequence[i] ELSE 0]

LEMMA EntriesAre == \A t : Entries(t) = {EntryOf(t, i) : i \in Full(t)}
  BY Zenon DEF Entries, EntryOf

LEMMA TypedIs ==
    ASSUME NEW t, Typed(t)
    PROVE  /\ t.capacity \in Nat \ {0} /\ t.length \in Nat /\ t.used \in Nat
           /\ t.nextSequence \in Nat
           /\ t.states \in [Slots(t) -> 0 .. 2]
           /\ t.keys \in [Slots(t) -> Instances \cup {Vacant}]
           /\ t.values \in [Slots(t) -> Payloads \cup {Vacant}]
           /\ t.keyInitialized \in [Slots(t) -> BOOLEAN]
           /\ t.valueInitialized \in [Slots(t) -> BOOLEAN]
           /\ t.sequence \in [Slots(t) -> Nat]
           /\ Full(t) \subseteq Slots(t)
           /\ Full(t) = {i \in Slots(t) : t.states[i] = 1}
           /\ NonEmpty(t) = {i \in Slots(t) : t.states[i] # 0}
  <1>1. /\ t.capacity \in Nat \ {0} /\ t.length \in Nat /\ t.used \in Nat
        /\ t.nextSequence \in Nat
        /\ t.states \in [Slots(t) -> 0 .. 2]
    BY DEF Typed, TableOf, Slots
  <1>2. /\ t.keys \in [Slots(t) -> Instances \cup {Vacant}]
        /\ t.values \in [Slots(t) -> Payloads \cup {Vacant}]
        /\ t.keyInitialized \in [Slots(t) -> BOOLEAN]
        /\ t.valueInitialized \in [Slots(t) -> BOOLEAN]
        /\ t.sequence \in [Slots(t) -> Nat]
    BY DEF Typed, TableOf, Slots
  <1>3. DOMAIN t.states = Slots(t)
    BY <1>1
  <1> QED
    BY <1>1, <1>2, <1>3 DEF Full, NonEmpty

LEMMA FullIs ==
    ASSUME NEW t, Typed(t)
    PROVE  /\ Full(t) = {i \in Slots(t) : t.states[i] = 1}
           /\ NonEmpty(t) = {i \in Slots(t) : t.states[i] # 0}
  BY TypedIs

\* The fields of r are those of t, but for slot i, which is full.
Fills(t, r, i, key, value, order) ==
    /\ Typed(r) /\ r.capacity = t.capacity
    /\ r.states = [t.states EXCEPT ![i] = 1]
    /\ r.keys = [t.keys EXCEPT ![i] = key]
    /\ r.values = [t.values EXCEPT ![i] = value]
    /\ r.keyInitialized = [t.keyInitialized EXCEPT ![i] = TRUE]
    /\ r.valueInitialized = [t.valueInitialized EXCEPT ![i] = TRUE]
    /\ r.sequence = [t.sequence EXCEPT ![i] = IF ordered THEN order ELSE @]

LEMMA FilledIs ==
    ASSUME NEW t, Typed(t), NEW i \in Slots(t), NEW key \in Instances, NEW value \in Payloads,
           NEW order \in Nat, NEW r, r = Filled(t, i, key, value, order)
    PROVE  /\ Fills(t, r, i, key, value, order)
           /\ r.length = t.length /\ r.used = t.used /\ r.nextSequence = t.nextSequence
           /\ r \in TableOf(t.capacity)
  <1> DEFINE c == t.capacity
  <1>1. /\ c \in Nat \ {0} /\ t.length \in Nat /\ t.used \in Nat /\ t.nextSequence \in Nat
        /\ t \in TableOf(c)
    BY DEF Typed, TableOf
  <1>2. /\ t.states \in [Slots(t) -> 0 .. 2]
        /\ t.keys \in [Slots(t) -> Instances \cup {Vacant}]
        /\ t.values \in [Slots(t) -> Payloads \cup {Vacant}]
        /\ t.keyInitialized \in [Slots(t) -> BOOLEAN]
        /\ t.valueInitialized \in [Slots(t) -> BOOLEAN]
        /\ t.sequence \in [Slots(t) -> Nat]
    BY TypedIs, Zenon
  <1>3. Slots(t) = 0 .. c - 1
    BY Zenon DEF Slots
  <1> HIDE DEF c
  <1>4. /\ r.states = [t.states EXCEPT ![i] = 1]
        /\ r.keys = [t.keys EXCEPT ![i] = key]
        /\ r.values = [t.values EXCEPT ![i] = value]
        /\ r.keyInitialized = [t.keyInitialized EXCEPT ![i] = TRUE]
        /\ r.valueInitialized = [t.valueInitialized EXCEPT ![i] = TRUE]
        /\ r.sequence = [t.sequence EXCEPT ![i] = IF ordered THEN order ELSE @]
        /\ r.capacity = t.capacity
        /\ r.length = t.length /\ r.used = t.used /\ r.nextSequence = t.nextSequence
    BY <1>1 DEF Filled, TableOf
  <1>5. /\ r.states \in [Slots(t) -> 0 .. 2]
        /\ r.keys \in [Slots(t) -> Instances \cup {Vacant}]
        /\ r.values \in [Slots(t) -> Payloads \cup {Vacant}]
        /\ r.keyInitialized \in [Slots(t) -> BOOLEAN]
        /\ r.valueInitialized \in [Slots(t) -> BOOLEAN]
        /\ r.sequence \in [Slots(t) -> Nat]
    BY <1>2, <1>4
  <1>6. r = [capacity |-> r.capacity, length |-> r.length, used |-> r.used,
             nextSequence |-> r.nextSequence, states |-> r.states, keys |-> r.keys,
             values |-> r.values, keyInitialized |-> r.keyInitialized,
             valueInitialized |-> r.valueInitialized, sequence |-> r.sequence]
    BY <1>1 DEF Filled, TableOf
  <1>7. r.capacity = c
    BY <1>4, Zenon DEF c
  <1>8. r \in TableOf(c)
    <2>1. r.length \in Nat /\ r.used \in Nat /\ r.nextSequence \in Nat
      BY <1>4, TypedIs
    <2>2. /\ r.states \in [0 .. c - 1 -> 0 .. 2]
          /\ r.keys \in [0 .. c - 1 -> Instances \cup {Vacant}]
          /\ r.values \in [0 .. c - 1 -> Payloads \cup {Vacant}]
          /\ r.keyInitialized \in [0 .. c - 1 -> BOOLEAN]
          /\ r.valueInitialized \in [0 .. c - 1 -> BOOLEAN]
          /\ r.sequence \in [0 .. c - 1 -> Nat]
      BY <1>3, <1>5, Zenon
    <2> QED
      BY <1>6, <1>7, <2>1, <2>2 DEF TableOf
  <1>9. Typed(r)
    BY <1>1, <1>7, <1>8 DEF Typed
  <1> QED
    BY <1>4, <1>8, <1>9, Zenon DEF Fills, c

\* With other counters it is still a table, of the same slots.
Counts(t, r, l, u, n) ==
    /\ Typed(r) /\ r.length = l /\ r.used = u /\ r.nextSequence = n
    /\ r.capacity = t.capacity /\ r.states = t.states
    /\ r.keys = t.keys /\ r.values = t.values /\ r.sequence = t.sequence
    /\ r.keyInitialized = t.keyInitialized /\ r.valueInitialized = t.valueInitialized

LEMMA CountedIs ==
    ASSUME NEW t, Typed(t), NEW l \in Nat, NEW u \in Nat, NEW n \in Nat,
           NEW r, r = [t EXCEPT !.length = l, !.used = u, !.nextSequence = n]
    PROVE  Counts(t, r, l, u, n)
  <1>1. t \in TableOf(t.capacity) /\ t.capacity \in Nat \ {0}
    BY DEF Typed
  <1>2. /\ r.length = l /\ r.used = u /\ r.nextSequence = n
        /\ r.capacity = t.capacity /\ r.states = t.states
        /\ r.keys = t.keys /\ r.values = t.values /\ r.sequence = t.sequence
        /\ r.keyInitialized = t.keyInitialized /\ r.valueInitialized = t.valueInitialized
    BY <1>1 DEF TableOf
  <1>3. r \in TableOf(t.capacity)
    BY <1>1 DEF TableOf
  <1> QED
    BY <1>1, <1>2, <1>3, Zenon DEF Typed, Counts

\* `order` is after those of t, and before the next that r gives out.
Follows(t, r, order) ==
    /\ r.nextSequence >= t.nextSequence
    /\ ordered => order < r.nextSequence /\ \A j \in Full(t) : t.sequence[j] # order

\* What filling a slot a search ended in does to the table.
Gains(t, r, i, e) ==
    /\ Kept(r) /\ Unique(r) /\ Found(r) /\ Numbered(r)
    /\ Full(r) = Full(t) \cup {i} /\ i \notin Full(t)
    /\ NonEmpty(r) = NonEmpty(t) \cup {i}
    /\ Entries(r) = Entries(t) \cup {e}

LEMMA FillKeeps ==
    ASSUME NEW t, Typed(t), Kept(t), Unique(t), Found(t), Numbered(t), ordered \in BOOLEAN,
           NEW i, NEW key \in Instances, Ends(t, key.is, i), t.states[i] # 1,
           NEW value \in Payloads, value.of = key.is, NEW order \in Nat,
           NEW r, Fills(t, r, i, key, value, order),
           Follows(t, r, order)
    PROVE  Gains(t, r, i, [key |-> key, value |-> value, order |-> IF ordered THEN order ELSE 0])
  <1>1. /\ t.capacity \in Nat \ {0} /\ t.nextSequence \in Nat
        /\ t.states \in [Slots(t) -> 0 .. 2]
        /\ t.keys \in [Slots(t) -> Instances \cup {Vacant}]
        /\ t.values \in [Slots(t) -> Payloads \cup {Vacant}]
        /\ t.keyInitialized \in [Slots(t) -> BOOLEAN]
        /\ t.valueInitialized \in [Slots(t) -> BOOLEAN]
        /\ t.sequence \in [Slots(t) -> Nat]
        /\ Full(t) = {j \in Slots(t) : t.states[j] = 1}
        /\ NonEmpty(t) = {j \in Slots(t) : t.states[j] # 0}
    BY TypedIs, Zenon
  <1>2. /\ r.capacity = t.capacity /\ r.nextSequence \in Nat
        /\ Full(r) = {j \in Slots(t) : r.states[j] = 1}
        /\ NonEmpty(r) = {j \in Slots(t) : r.states[j] # 0}
        /\ Slots(r) = Slots(t)
    <2>1. Typed(r) /\ r.capacity = t.capacity
      BY Zenon DEF Fills
    <2>2. Slots(r) = Slots(t)
      BY <2>1, Zenon DEF Slots
    <2>3. /\ r.nextSequence \in Nat
          /\ Full(r) = {j \in Slots(r) : r.states[j] = 1}
          /\ NonEmpty(r) = {j \in Slots(r) : r.states[j] # 0}
      BY <2>1, TypedIs, Zenon
    <2> QED
      BY <2>1, <2>2, <2>3, Zenon
  <1>3. i \in Slots(t)
    BY DEF Ends
  <1>4. /\ r.states[i] = 1 /\ r.keys[i] = key /\ r.values[i] = value
        /\ r.keyInitialized[i] = TRUE /\ r.valueInitialized[i] = TRUE
        /\ r.sequence[i] = IF ordered THEN order ELSE t.sequence[i]
    BY <1>1, <1>3 DEF Fills
  <1>5. \A j \in Slots(t) : j # i =>
          /\ r.states[j] = t.states[j] /\ r.keys[j] = t.keys[j] /\ r.values[j] = t.values[j]
          /\ r.keyInitialized[j] = t.keyInitialized[j]
          /\ r.valueInitialized[j] = t.valueInitialized[j]
          /\ r.sequence[j] = t.sequence[j]
    BY <1>1, <1>3 DEF Fills
  <1>6. Full(r) = Full(t) \cup {i} /\ i \notin Full(t)
    BY <1>1, <1>2, <1>3, <1>4, <1>5
  <1>7. NonEmpty(r) = NonEmpty(t) \cup {i}
    BY <1>1, <1>2, <1>3, <1>4, <1>5
  <1>8. \A j \in Full(t) : /\ j \in Slots(t) /\ j # i /\ r.keys[j] = t.keys[j] /\ r.values[j] = t.values[j]
                           /\ r.sequence[j] = t.sequence[j]
    BY <1>1, <1>5, <1>6
  <1>9. Kept(r)
    <2> SUFFICES ASSUME NEW j \in Slots(t)
                 PROVE  /\ (r.states[j] = 1) = r.keyInitialized[j]
                        /\ (r.states[j] = 1) = r.valueInitialized[j]
                        /\ r.states[j] = 1 => /\ r.keys[j] \in Instances
                                              /\ r.values[j] \in Payloads
                                              /\ r.values[j].of = r.keys[j].is
      BY <1>2, Zenon DEF Kept
    <2>1. CASE j = i
      BY <1>4, <2>1
    <2>2. CASE j # i
      BY <1>5, <2>2, ZenonT(60) DEF Kept
    <2> QED
      BY <2>1, <2>2
  <1>10. Unique(r)
    <2>1. \A j \in Full(t) : t.keys[j].is # key.is
      BY Zenon DEF Ends
    <2> QED
      BY <1>4, <1>6, <1>8, <2>1, ZenonT(60) DEF Unique
  <1>11. Found(r)
    <2>1. \A k, j : Probe(r, k, j) = Probe(t, k, j)
      BY <1>2, Zenon DEF Probe, startIndex
    <2>2. \A j \in Slots(t) : t.states[j] # 0 => r.states[j] # 0
      BY <1>4, <1>5
    <2>3. \A k \in Keys : \A j \in Slots(t) : Probe(t, k, j) \in Slots(t)
      BY <1>1, ProbeIs, Zenon
    <2>4. \A k \in Keys : \A j : Reaches(t, k, j) => Reaches(r, k, j)
      BY <1>2, <2>1, <2>2, <2>3, Zenon DEF Reaches
    <2>5. \A j \in Full(r) : r.keys[j].is \in Keys
      <3>1. \A j \in Full(r) : r.keys[j] \in Instances
        BY <1>2, <1>9, Zenon DEF Kept, Full
      <3> QED
        BY <3>1 DEF Instances
    <2>6. \A j \in Full(t) : Reaches(t, t.keys[j].is, j)
      BY Zenon DEF Found
    <2>7. Reaches(t, key.is, i)
      BY Zenon DEF Ends
    <2> QED
      BY <1>4, <1>6, <1>8, <2>4, <2>5, <2>6, <2>7, Zenon DEF Found
  <1>12. Numbered(r)
    <2> SUFFICES ASSUME ordered, NEW j \in Full(r), NEW h \in Full(r)
                 PROVE  r.sequence[j] < r.nextSequence /\ (r.sequence[j] = r.sequence[h] => j = h)
      BY Zenon DEF Numbered
    <2>1. \A l, m \in Full(t) : /\ t.sequence[l] < t.nextSequence
                                /\ t.sequence[l] = t.sequence[m] => l = m
      BY Zenon DEF Numbered
    <2>2. r.sequence[i] = order /\ order < r.nextSequence /\ \A l \in Full(t) : t.sequence[l] # order
      BY <1>4 DEF Follows
    <2>3. r.sequence[j] = r.sequence[h] => j = h
      BY <1>6, <1>8, <2>1, <2>2, ZenonT(60)
    <2>4. \A l \in Full(t) : t.sequence[l] \in Nat
      BY <1>1
    <2>5. \A l \in Full(t) : r.sequence[l] < r.nextSequence
      BY <1>1, <1>2, <1>8, <2>1, <2>4 DEF Follows
    <2> QED
      BY <1>6, <2>2, <2>3, <2>5, Zenon
  <1>13. Entries(r) = Entries(t) \cup
           {[key |-> key, value |-> value, order |-> IF ordered THEN order ELSE 0]}
    <2>1. \A j \in Full(t) : EntryOf(r, j) = EntryOf(t, j)
      BY <1>8, Zenon DEF EntryOf
    <2>2. EntryOf(r, i) = [key |-> key, value |-> value, order |-> IF ordered THEN order ELSE 0]
      BY <1>4 DEF EntryOf
    <2> HIDE DEF EntryOf
    <2>3. {EntryOf(r, j) : j \in Full(r)} = {EntryOf(t, j) : j \in Full(t)} \cup {EntryOf(r, i)}
      BY <1>6, <2>1
    <2> QED
      BY <2>2, <2>3, EntriesAre, Zenon
  <1> QED
    BY <1>6, <1>7, <1>9, <1>10, <1>11, <1>12, <1>13, Zenon DEF Gains

\* What vacating a full slot does.
Vacates(t, r, i) ==
    /\ Typed(r) /\ r.capacity = t.capacity /\ r.length = t.length - 1
    /\ r.used = t.used /\ r.nextSequence = t.nextSequence
    /\ r.states = [t.states EXCEPT ![i] = 2]
    /\ r.keys = [t.keys EXCEPT ![i] = Vacant]
    /\ r.values = [t.values EXCEPT ![i] = Vacant]
    /\ r.keyInitialized = [t.keyInitialized EXCEPT ![i] = FALSE]
    /\ r.valueInitialized = [t.valueInitialized EXCEPT ![i] = FALSE]
    /\ r.sequence = t.sequence

LEMMA VacatedIs ==
    ASSUME NEW t, Typed(t), NEW i \in Slots(t), t.length \in Nat \ {0},
           NEW r, r = Vacated(t, i)
    PROVE  Vacates(t, r, i)
  <1> DEFINE c == t.capacity
  <1>1. /\ c \in Nat \ {0} /\ t.length \in Nat /\ t.used \in Nat /\ t.nextSequence \in Nat
        /\ t \in TableOf(c)
    BY DEF Typed, TableOf
  <1>2. /\ t.states \in [Slots(t) -> 0 .. 2]
        /\ t.keys \in [Slots(t) -> Instances \cup {Vacant}]
        /\ t.values \in [Slots(t) -> Payloads \cup {Vacant}]
        /\ t.keyInitialized \in [Slots(t) -> BOOLEAN]
        /\ t.valueInitialized \in [Slots(t) -> BOOLEAN]
        /\ t.sequence \in [Slots(t) -> Nat]
    BY TypedIs, Zenon
  <1>3. Slots(t) = 0 .. c - 1
    BY Zenon DEF Slots
  <1> HIDE DEF c
  <1>4. /\ r.states = [t.states EXCEPT ![i] = 2]
        /\ r.keys = [t.keys EXCEPT ![i] = Vacant]
        /\ r.values = [t.values EXCEPT ![i] = Vacant]
        /\ r.keyInitialized = [t.keyInitialized EXCEPT ![i] = FALSE]
        /\ r.valueInitialized = [t.valueInitialized EXCEPT ![i] = FALSE]
        /\ r.sequence = t.sequence
        /\ r.capacity = t.capacity
        /\ r.length = t.length - 1 /\ r.used = t.used /\ r.nextSequence = t.nextSequence
    BY <1>1 DEF Vacated, TableOf
  <1>5. /\ r.states \in [Slots(t) -> 0 .. 2]
        /\ r.keys \in [Slots(t) -> Instances \cup {Vacant}]
        /\ r.values \in [Slots(t) -> Payloads \cup {Vacant}]
        /\ r.keyInitialized \in [Slots(t) -> BOOLEAN]
        /\ r.valueInitialized \in [Slots(t) -> BOOLEAN]
        /\ r.sequence \in [Slots(t) -> Nat]
    BY <1>2, <1>4
  <1>6. r = [capacity |-> r.capacity, length |-> r.length, used |-> r.used,
             nextSequence |-> r.nextSequence, states |-> r.states, keys |-> r.keys,
             values |-> r.values, keyInitialized |-> r.keyInitialized,
             valueInitialized |-> r.valueInitialized, sequence |-> r.sequence]
    BY <1>1 DEF Vacated, TableOf
  <1>7. r.capacity = c /\ r.length \in Nat
    BY <1>4 DEF c
  <1>8. r \in TableOf(c)
    BY <1>1, <1>3, <1>4, <1>5, <1>6, <1>7 DEF TableOf
  <1>9. Typed(r)
    BY <1>1, <1>7, <1>8 DEF Typed
  <1> QED
    BY <1>4, <1>8, <1>9, Zenon DEF Vacates

\* No search loses its way: a tombstone is not empty.
LEMMA VacateKeeps ==
    ASSUME NEW t, Well(t), ordered \in BOOLEAN, NEW i \in Full(t), t.length \in Nat \ {0},
           NEW r, r = Vacated(t, i)
    PROVE  /\ Well(r)
           /\ Full(r) = Full(t) \ {i}
           /\ Entries(r) = Entries(t) \ {EntryOf(t, i)}
           /\ \A j \in Full(r) : r.sequence[j] = t.sequence[j]
  <1>0. Typed(t) /\ Kept(t) /\ Unique(t) /\ Found(t) /\ Numbered(t) /\ Room(t)
    BY DEF Well
  <1>1. /\ t.capacity \in Nat \ {0} /\ t.nextSequence \in Nat
        /\ t.states \in [Slots(t) -> 0 .. 2]
        /\ t.keys \in [Slots(t) -> Instances \cup {Vacant}]
        /\ t.values \in [Slots(t) -> Payloads \cup {Vacant}]
        /\ t.keyInitialized \in [Slots(t) -> BOOLEAN]
        /\ t.valueInitialized \in [Slots(t) -> BOOLEAN]
        /\ t.sequence \in [Slots(t) -> Nat]
        /\ Full(t) = {j \in Slots(t) : t.states[j] = 1}
        /\ NonEmpty(t) = {j \in Slots(t) : t.states[j] # 0}
    BY <1>0, TypedIs, Zenon
  <1>2. i \in Slots(t) /\ t.states[i] = 1
    BY <1>1
  <1>3. /\ Typed(r) /\ r.capacity = t.capacity
        /\ r.used = t.used /\ r.nextSequence = t.nextSequence
        /\ r.states = [t.states EXCEPT ![i] = 2]
        /\ r.keys = [t.keys EXCEPT ![i] = Vacant]
        /\ r.values = [t.values EXCEPT ![i] = Vacant]
        /\ r.keyInitialized = [t.keyInitialized EXCEPT ![i] = FALSE]
        /\ r.valueInitialized = [t.valueInitialized EXCEPT ![i] = FALSE]
        /\ r.sequence = t.sequence
    <2>1. Typed(t)
      BY <1>0
    <2>2. Vacates(t, r, i)
      BY <1>2, <2>1, VacatedIs
    <2> QED
      BY <2>2, Zenon DEF Vacates
  <1>4. Slots(r) = Slots(t)
    BY <1>3, Zenon DEF Slots
  <1>5. /\ Full(r) = {j \in Slots(t) : r.states[j] = 1}
        /\ NonEmpty(r) = {j \in Slots(t) : r.states[j] # 0}
    <2>1. Typed(r)
      BY <1>3, Zenon
    <2>2. /\ Full(r) = {j \in Slots(r) : r.states[j] = 1}
          /\ NonEmpty(r) = {j \in Slots(r) : r.states[j] # 0}
      BY <2>1, FullIs, ZenonT(60)
    <2> QED
      BY <1>4, <2>2, Zenon
  <1>6. r.states[i] = 2 /\ r.keyInitialized[i] = FALSE /\ r.valueInitialized[i] = FALSE
    BY <1>1, <1>2, <1>3
  <1>7. \A j \in Slots(t) : j # i =>
          /\ r.states[j] = t.states[j] /\ r.keys[j] = t.keys[j] /\ r.values[j] = t.values[j]
          /\ r.keyInitialized[j] = t.keyInitialized[j]
          /\ r.valueInitialized[j] = t.valueInitialized[j]
    BY <1>1, <1>2, <1>3
  <1>8. Full(r) = Full(t) \ {i}
    BY <1>1, <1>2, <1>5, <1>6, <1>7
  <1>9. NonEmpty(r) = NonEmpty(t)
    BY <1>1, <1>2, <1>5, <1>6, <1>7
  <1>10. \A j \in Full(r) : /\ j \in Slots(t) /\ j # i /\ j \in Full(t) /\ r.keys[j] = t.keys[j]
                            /\ r.values[j] = t.values[j] /\ r.sequence[j] = t.sequence[j]
    BY <1>1, <1>3, <1>7, <1>8
  <1>11. Kept(r)
    <2> SUFFICES ASSUME NEW j \in Slots(t)
                 PROVE  /\ (r.states[j] = 1) = r.keyInitialized[j]
                        /\ (r.states[j] = 1) = r.valueInitialized[j]
                        /\ r.states[j] = 1 => /\ r.keys[j] \in Instances
                                              /\ r.values[j] \in Payloads
                                              /\ r.values[j].of = r.keys[j].is
      BY <1>4, Zenon DEF Kept
    <2>1. CASE j = i
      <3>1. r.states[j] # 1
        BY <1>6, <2>1
      <3> QED
        BY <1>6, <2>1, <3>1, Zenon
    <2>2. CASE j # i
      BY <1>0, <1>7, <2>2, ZenonT(60) DEF Kept
    <2> QED
      BY <2>1, <2>2
  <1>12. Unique(r)
    <2>1. \A j, h \in Full(t) : t.keys[j].is = t.keys[h].is => j = h
      BY <1>0, Zenon DEF Unique
    <2>2. \A j \in Full(r) : j \in Full(t) /\ r.keys[j] = t.keys[j]
      BY <1>10, Zenon
    <2> QED
      BY <2>1, <2>2, ZenonT(60) DEF Unique
  <1>13. Found(r)
    <2>1. \A k, j : Probe(r, k, j) = Probe(t, k, j)
      BY <1>3, Zenon DEF Probe, startIndex
    <2>2. \A j \in Slots(t) : t.states[j] # 0 => r.states[j] # 0
      BY <1>6, <1>7
    <2>3. \A k \in Keys : \A j \in Slots(t) : Probe(t, k, j) \in Slots(t)
      BY <1>1, ProbeIs, Zenon
    <2>4. ASSUME NEW k \in Keys, NEW j, Reaches(t, k, j) PROVE Reaches(r, k, j)
      <3>1. PICK h \in Slots(t) : /\ Probe(t, k, h) = j
                                  /\ \A l \in Slots(t) : l < h => t.states[Probe(t, k, l)] # 0
        BY <2>4, Zenon DEF Reaches
      <3>2. \A l \in Slots(t) : l < h => r.states[Probe(r, k, l)] # 0
        BY <2>1, <2>2, <2>3, <3>1, Zenon
      <3> QED
        BY <1>4, <2>1, <3>1, <3>2 DEF Reaches
    <2>5. \A j \in Full(r) : r.keys[j].is \in Keys
      <3>1. \A j \in Full(r) : r.keys[j] \in Instances
        BY <1>4, <1>5, <1>11, Zenon DEF Kept, Full
      <3> QED
        BY <3>1 DEF Instances
    <2>6. \A j \in Full(t) : Reaches(t, t.keys[j].is, j)
      BY <1>0, Zenon DEF Found
    <2> QED
      BY <1>10, <2>4, <2>5, <2>6, Zenon DEF Found
  <1>14. Numbered(r)
    <2> SUFFICES ASSUME ordered, NEW j \in Full(r), NEW h \in Full(r)
                 PROVE  r.sequence[j] < r.nextSequence /\ (r.sequence[j] = r.sequence[h] => j = h)
      BY Zenon DEF Numbered
    <2>1. \A l, m \in Full(t) : /\ t.sequence[l] < t.nextSequence
                                /\ t.sequence[l] = t.sequence[m] => l = m
      BY <1>0, Zenon DEF Numbered
    <2>2. j \in Full(t) /\ h \in Full(t) /\ r.sequence = t.sequence /\ r.nextSequence = t.nextSequence
      BY <1>3, <1>10, Zenon
    <2> QED
      BY <2>1, <2>2, Zenon
  <1>15. Room(r)
    BY <1>0, <1>3, <1>9, Zenon DEF Room
  <1>16. Entries(r) = Entries(t) \ {EntryOf(t, i)}
    <2>1. \A j \in Full(r) : EntryOf(r, j) = EntryOf(t, j)
      BY <1>10, Zenon DEF EntryOf
    <2>2. \A j \in Full(t) : EntryOf(t, j) = EntryOf(t, i) => j = i
      <3>1. \A j : EntryOf(t, j).key = t.keys[j]
        BY DEF EntryOf
      <3> QED
        BY <1>0, <3>1, ZenonT(60) DEF Unique
    <2>3. {EntryOf(r, j) : j \in Full(r)} = {EntryOf(t, j) : j \in Full(t)} \ {EntryOf(t, i)}
      BY <1>8, <2>1, <2>2
    <2> QED
      BY <2>3, EntriesAre, Zenon
  <1> QED
    BY <1>3, <1>8, <1>10, <1>11, <1>12, <1>13, <1>14, <1>15, <1>16, Zenon DEF Well

\* What replacing the value of a full slot does.
LEMMA ReplaceKeeps ==
    ASSUME NEW t, Well(t), ordered \in BOOLEAN, NEW i \in Full(t), NEW value \in Payloads,
           value.of = t.keys[i].is,
           NEW r, r = [t EXCEPT !.values[i] = value]
    PROVE  /\ Well(r)
           /\ r.length = t.length /\ Full(r) = Full(t)
           /\ Entries(r) = (Entries(t) \ {EntryOf(t, i)}) \cup
                {[key |-> t.keys[i], value |-> value, order |-> EntryOf(t, i).order]}
           /\ \A j \in Full(r) : r.sequence[j] = t.sequence[j]
  <1>0. Typed(t) /\ Kept(t) /\ Unique(t) /\ Found(t) /\ Numbered(t) /\ Room(t)
    BY DEF Well
  <1>1. /\ t.capacity \in Nat \ {0} /\ t.nextSequence \in Nat
        /\ t.values \in [Slots(t) -> Payloads \cup {Vacant}]
        /\ Full(t) = {j \in Slots(t) : t.states[j] = 1}
    BY <1>0, TypedIs, Zenon
  <1>2. i \in Slots(t) /\ t.states[i] = 1
    BY <1>1
  <1>3. t \in TableOf(t.capacity)
    BY <1>0 DEF Typed
  <1>4. /\ r.capacity = t.capacity /\ r.length = t.length
        /\ r.used = t.used /\ r.nextSequence = t.nextSequence
        /\ r.states = t.states /\ r.keys = t.keys
        /\ r.values = [t.values EXCEPT ![i] = value]
        /\ r.keyInitialized = t.keyInitialized /\ r.valueInitialized = t.valueInitialized
        /\ r.sequence = t.sequence
    BY <1>3 DEF TableOf
  <1>5. r.values \in [Slots(t) -> Payloads \cup {Vacant}]
    BY <1>1, <1>4
  <1>6. r \in TableOf(t.capacity)
    BY <1>3, <1>5 DEF TableOf, Slots
  <1>7. Typed(r)
    BY <1>1, <1>4, <1>6, Zenon DEF Typed
  <1>8. Slots(r) = Slots(t) /\ Full(r) = Full(t) /\ NonEmpty(r) = NonEmpty(t)
    BY <1>4, Zenon DEF Slots, Full, NonEmpty
  <1>9. r.values[i] = value /\ \A j \in Slots(t) : j # i => r.values[j] = t.values[j]
    BY <1>1, <1>2, <1>4
  <1>10. Kept(r)
    <2> SUFFICES ASSUME NEW j \in Slots(t)
                 PROVE  /\ (r.states[j] = 1) = r.keyInitialized[j]
                        /\ (r.states[j] = 1) = r.valueInitialized[j]
                        /\ r.states[j] = 1 => /\ r.keys[j] \in Instances
                                              /\ r.values[j] \in Payloads
                                              /\ r.values[j].of = r.keys[j].is
      BY <1>8, Zenon DEF Kept
    <2>1. /\ (t.states[j] = 1) = t.keyInitialized[j]
          /\ (t.states[j] = 1) = t.valueInitialized[j]
          /\ t.states[j] = 1 => /\ t.keys[j] \in Instances
                                /\ t.values[j] \in Payloads
                                /\ t.values[j].of = t.keys[j].is
      BY <1>0, Zenon DEF Kept
    <2>2. r.states[j] = 1 => /\ r.keys[j] \in Instances
                             /\ r.values[j] \in Payloads
                             /\ r.values[j].of = r.keys[j].is
      BY <1>4, <1>9, <2>1
    <2> QED
      BY <1>4, <2>1, <2>2, Zenon
  <1>11. Unique(r) /\ Numbered(r) /\ Room(r)
    <2>1. Unique(r)
      BY <1>0, <1>4, <1>8 DEF Unique
    <2>2. Numbered(r)
      BY <1>0, <1>4, <1>8 DEF Numbered
    <2>3. Room(r)
      BY <1>0, <1>4, <1>8 DEF Room
    <2> QED
      BY <2>1, <2>2, <2>3
  <1>12. Found(r)
    <2>1. \A k, j : Probe(r, k, j) = Probe(t, k, j)
      BY <1>4, Zenon DEF Probe, startIndex
    <2>2. \A k, j : Reaches(t, k, j) => Reaches(r, k, j)
      BY <1>4, <1>8, <2>1 DEF Reaches
    <2> QED
      BY <1>0, <1>4, <1>8, <2>2, Zenon DEF Found
  <1>13. Entries(r) = (Entries(t) \ {EntryOf(t, i)}) \cup
           {[key |-> t.keys[i], value |-> value, order |-> EntryOf(t, i).order]}
    <2>1. ASSUME NEW j \in Full(t), j # i PROVE EntryOf(r, j) = EntryOf(t, j)
      <3>1. r.values[j] = t.values[j]
        BY <1>1, <1>9, <2>1
      <3>2. r.keys[j] = t.keys[j] /\ r.sequence[j] = t.sequence[j]
        BY <1>4, Zenon
      <3> QED
        BY <3>1, <3>2, Zenon DEF EntryOf
    <2>2. \A j \in Full(t) : EntryOf(t, j) = EntryOf(t, i) => j = i
      <3>1. \A j : EntryOf(t, j).key = t.keys[j]
        BY DEF EntryOf
      <3> QED
        BY <1>0, <3>1, ZenonT(60) DEF Unique
    <2>3. EntryOf(r, i) = [key |-> t.keys[i], value |-> value, order |-> EntryOf(t, i).order]
      BY <1>4, <1>9 DEF EntryOf
    <2>4. {EntryOf(r, j) : j \in Full(t)}
            = ({EntryOf(t, j) : j \in Full(t)} \ {EntryOf(t, i)}) \cup {EntryOf(r, i)}
      BY <2>1, <2>2
    <2>5. Entries(r) = {EntryOf(r, j) : j \in Full(t)}
      BY <1>8, EntriesAre, Zenon
    <2>6. Entries(t) = {EntryOf(t, j) : j \in Full(t)}
      BY EntriesAre, Zenon
    <2> QED
      BY <2>3, <2>4, <2>5, <2>6, Zenon
  <1> QED
    BY <1>4, <1>7, <1>8, <1>10, <1>11, <1>12, <1>13, Zenon DEF Well

\* A new block is a table without entries.
LEMMA EmptyIs ==
    ASSUME NEW n \in Nat \ {0}, NEW r, r = Empty(n)
    PROVE  /\ Well(r) /\ r.capacity = n /\ r.length = 0 /\ r.used = 0 /\ r.nextSequence = 0
           /\ Full(r) = {} /\ NonEmpty(r) = {} /\ Entries(r) = {}
  <1>1. /\ r.capacity = n /\ r.length = 0 /\ r.used = 0 /\ r.nextSequence = 0
        /\ r.states = [i \in 0 .. n - 1 |-> 0]
        /\ r.keyInitialized = [i \in 0 .. n - 1 |-> FALSE]
        /\ r.valueInitialized = [i \in 0 .. n - 1 |-> FALSE]
    BY DEF Empty
  <1>2. r \in TableOf(n)
    BY DEF Empty, TableOf
  <1>3. Typed(r) /\ Slots(r) = 0 .. n - 1
    BY <1>1, <1>2, Zenon DEF Typed, Slots
  <1>4. \A i \in Slots(r) : r.states[i] = 0 /\ r.keyInitialized[i] = FALSE /\ r.valueInitialized[i] = FALSE
    BY <1>1, <1>3
  <1>5. Full(r) = {} /\ NonEmpty(r) = {}
    <2>1. /\ Full(r) = {i \in Slots(r) : r.states[i] = 1}
          /\ NonEmpty(r) = {i \in Slots(r) : r.states[i] # 0}
      BY <1>3, FullIs
    <2> QED
      BY <1>4, <2>1
  <1>6. Entries(r) = {}
    BY <1>5 DEF Entries
  <1>7. Kept(r)
    <2>1. \A i \in Slots(r) : r.states[i] # 1
      BY <1>4
    <2> QED
      BY <1>4, <2>1, Zenon DEF Kept
  <1>8. Unique(r) /\ Found(r) /\ Numbered(r)
    BY <1>5 DEF Unique, Found, Numbered
  <1>9. Room(r)
    BY <1>1, <1>5, FS_EmptySet DEF Room
  <1> QED
    BY <1>1, <1>3, <1>5, <1>6, <1>7, <1>8, <1>9 DEF Well

-----------------------------------------------------------------------------
(* Counting entries.                                                           *)

LEMMA FullFinite ==
    ASSUME NEW t, Typed(t)
    PROVE  IsFiniteSet(Full(t)) /\ Cardinality(Full(t)) \in Nat
           /\ IsFiniteSet(NonEmpty(t)) /\ Cardinality(NonEmpty(t)) \in Nat
           /\ Cardinality(Full(t)) <= Cardinality(NonEmpty(t))
  <1>1. t.capacity \in Nat \ {0} /\ Slots(t) = 0 .. t.capacity - 1
    BY TypedIs DEF Slots
  <1>2. IsFiniteSet(Slots(t))
    BY <1>1, SlotsAre, Zenon
  <1>3. Full(t) \subseteq NonEmpty(t) /\ NonEmpty(t) \subseteq Slots(t)
    <2>1. /\ Full(t) = {i \in Slots(t) : t.states[i] = 1}
          /\ NonEmpty(t) = {i \in Slots(t) : t.states[i] # 0}
      BY FullIs
    <2> QED
      BY <2>1
  <1>4. IsFiniteSet(NonEmpty(t))
    BY <1>2, <1>3, FS_Subset
  <1> QED
    BY <1>3, <1>4, FS_Subset, FS_CardinalityType

\* As many entries as full slots, as many keys, and in sum twice as many keys and values.
LEMMA EntriesCount ==
    ASSUME NEW t, Typed(t), Unique(t)
    PROVE  IsFiniteSet(Entries(t)) /\ Cardinality(Entries(t)) = Cardinality(Full(t))
  <1> DEFINE f == [i \in Full(t) |-> EntryOf(t, i)]
  <1>1. \A i : EntryOf(t, i).key = t.keys[i]
    BY DEF EntryOf
  <1> HIDE DEF EntryOf
  <1>2. Entries(t) = {EntryOf(t, i) : i \in Full(t)}
    BY EntriesAre, Zenon
  <1>3. f \in Bijection(Full(t), Entries(t))
    <2>1. \A i, j \in Full(t) : f[i] = f[j] => i = j
      BY <1>1, Zenon DEF Unique
    <2>2. f \in [Full(t) -> Entries(t)] /\ \A e \in Entries(t) : \E i \in Full(t) : f[i] = e
      BY <1>2
    <2> HIDE DEF f
    <2> QED
      BY <2>1, <2>2, Zenon DEF Bijection, Injection, Surjection, IsInjective
  <1>4. ExistsBijection(Full(t), Entries(t))
    BY <1>3, Zenon DEF ExistsBijection
  <1> QED
    BY <1>4, FullFinite, FS_Bijection

-----------------------------------------------------------------------------
(* Moving every entry into a block of another size.                            *)

\* The function a resize recurses through, for n slots; there is one.
Moves(t, start, n, f) ==
    f = [m \in 0 .. n |-> IF m = 0 THEN start ELSE Rehomed(t, f[m - 1], m - 1)]

LEMMA MovesExist ==
    ASSUME NEW t, NEW start, NEW n \in Nat
    PROVE  \E f : Moves(t, start, n, f)
  <1> DEFINE Upto(b) == \E f : f = [m \in 0 .. b |-> IF m = 0 THEN start ELSE Rehomed(t, f[m - 1], m - 1)]
             Without == {b \in Nat : ~Upto(b)}
  <1>1. Upto(0)
    <2> DEFINE f == [m \in 0 .. 0 |-> start]
    <2>1. f = [m \in 0 .. 0 |-> IF m = 0 THEN start ELSE Rehomed(t, f[m - 1], m - 1)]
      OBVIOUS
    <2> QED
      BY <2>1
  <1>2. ASSUME NEW b \in Nat, Upto(b) PROVE Upto(b + 1)
    <2>1. PICK f : f = [m \in 0 .. b |-> IF m = 0 THEN start ELSE Rehomed(t, f[m - 1], m - 1)]
      BY <1>2
    <2> DEFINE g == [m \in 0 .. b + 1 |-> IF m = 0 THEN start ELSE Rehomed(t, f[m - 1], m - 1)]
    <2>2. \A m \in 0 .. b : m \in 0 .. b + 1
      OBVIOUS
    <2>3. \A m \in 0 .. b : g[m] = f[m]
      BY <2>1, <2>2, Zenon
    <2>4. \A m \in 0 .. b + 1 : m # 0 => m - 1 \in 0 .. b
      OBVIOUS
    <2>5. \A m \in 0 .. b + 1 : (IF m = 0 THEN start ELSE Rehomed(t, f[m - 1], m - 1))
                                = (IF m = 0 THEN start ELSE Rehomed(t, g[m - 1], m - 1))
      BY <2>3, <2>4, Zenon
    <2>6. g = [m \in 0 .. b + 1 |-> IF m = 0 THEN start ELSE Rehomed(t, g[m - 1], m - 1)]
      BY <2>5, Zenon
    <2> QED
      BY <2>6, Zenon
  <1> HIDE DEF Upto
  <1>3. Without = {}
    <2> SUFFICES ASSUME Without # {} PROVE FALSE
      OBVIOUS
    <2>1. PICK m \in Without : \A l \in Without : m <= l
      BY LeastNumber
    <2>2. m \in Nat \ {0}
      BY <1>1, <2>1
    <2>3. m - 1 \in Nat /\ (m - 1) + 1 = m /\ ~(m <= m - 1)
      BY <2>2
    <2>4. Upto(m - 1)
      BY <2>1, <2>3
    <2> QED
      BY <1>2, <2>1, <2>3, <2>4
  <1>4. Upto(n)
    BY <1>3
  <1> QED
    BY <1>4, Zenon DEF Upto, Moves

\* What the first m slots of t made of a new block.
Before(t, m) == {EntryOf(t, i) : i \in {j \in Full(t) : j < m}}
Moved(t, n, m, r) ==
    /\ Well(r) /\ r.capacity = n /\ r.length = t.length /\ r.nextSequence = t.nextSequence
    /\ NonEmpty(r) = Full(r) /\ r.used = Cardinality(Full(r))
    /\ Entries(r) = Before(t, m)

\* A slot moves without meeting its key in the new block, which has room for it.
LEMMA MoveOne ==
    ASSUME NEW t, Well(t), ordered \in BOOLEAN, t.length = Cardinality(Full(t)),
           NEW n \in Nat \ {0}, t.length < n, NEW m \in Slots(t), NEW r, Moved(t, n, m, r)
    PROVE  Moved(t, n, m + 1, Rehomed(t, r, m))
  <1>1. Typed(t) /\ Kept(t) /\ Unique(t) /\ Numbered(t)
    BY DEF Well
  <1>2. /\ Well(r) /\ r.capacity = n /\ r.length = t.length /\ r.nextSequence = t.nextSequence
        /\ NonEmpty(r) = Full(r) /\ r.used = Cardinality(Full(r))
        /\ Entries(r) = Before(t, m)
    BY DEF Moved
  <1>3. Typed(r) /\ Kept(r) /\ Unique(r) /\ Found(r) /\ Numbered(r) /\ Room(r)
    BY <1>2 DEF Well
  <1>4. m \in Nat /\ Full(t) \subseteq Nat
    <2>1. Full(t) \subseteq Slots(t) /\ t.capacity \in Nat
      BY <1>1, TypedIs
    <2> QED
      BY <2>1 DEF Slots
  <1>5. Full(t) = {i \in Slots(t) : t.states[i] = 1}
    BY <1>1, FullIs
  <1>6. CASE t.states[m] # 1
    <2>1. m \notin Full(t)
      BY <1>5, <1>6
    <2>2. {j \in Full(t) : j < m + 1} = {j \in Full(t) : j < m}
      BY <1>4, <2>1
    <2>3. Rehomed(t, r, m) = r
      BY <1>6, Zenon DEF Rehomed
    <2> QED
      BY <2>2, <2>3, Zenon DEF Moved, Before
  <1>7. CASE t.states[m] = 1
    <2> DEFINE key == t.keys[m]
               value == t.values[m]
               order == t.sequence[m]
               i == slotFor(r, key.is)
               q == Filled(r, i, key, value, order)
               s == Rehomed(t, r, m)
    <2>1. m \in Full(t)
      BY <1>5, <1>7
    <2>2. key \in Instances /\ value \in Payloads /\ value.of = key.is
      BY <1>1, <1>7, Zenon DEF Kept
    <2>3. key.is \in Keys
      BY <2>2 DEF Instances
    <2>4. order \in Nat
      <3>1. t.sequence \in [Slots(t) -> Nat]
        BY <1>1, TypedIs
      <3> QED
        BY <3>1
    <2>5. Ends(r, key.is, i)
      <3>1. \E e \in Slots(r) : r.states[e] = 0
        BY <1>3, RoomIs
      <3> QED
        BY <1>3, <2>3, <3>1, SlotForIs
    <2>6. \A j : EntryOf(r, j).key = r.keys[j] /\ EntryOf(t, j).key = t.keys[j]
                 /\ (ordered => EntryOf(r, j).order = r.sequence[j] /\ EntryOf(t, j).order = t.sequence[j])
      BY DEF EntryOf
    <2>7. \A j \in Full(r) : \E h \in Full(t) : h < m /\ EntryOf(r, j) = EntryOf(t, h)
      <3>1. Entries(r) = {EntryOf(r, j) : j \in Full(r)}
        BY EntriesAre, Zenon
      <3> QED
        BY <1>2, <3>1, Zenon DEF Before
    <2>8. \A h \in Full(t) : h < m => h # m
      BY <1>4
    <2>9. \A j \in Full(r) : r.keys[j].is # key.is
      <3>1. \A h \in Full(t) : h < m => t.keys[h].is # key.is
        BY <1>1, <2>1, <2>8, Zenon DEF Unique, key
      <3>2. \A j \in Full(r) : \E h \in Full(t) : h < m /\ r.keys[j] = t.keys[h]
        BY <2>6, <2>7, Zenon
      <3> QED
        BY <3>1, <3>2, Zenon
    <2>10. i \in Slots(r) /\ r.states[i] # 1
      <3>1. Full(r) = {j \in Slots(r) : r.states[j] = 1}
        BY <1>3, FullIs
      <3>2. i \in Slots(r) /\ (r.states[i] = 1 => r.keys[i].is = key.is)
        BY <2>5, Zenon DEF Ends
      <3> QED
        BY <2>9, <3>1, <3>2, Zenon
    <2>11. s = [q EXCEPT !.used = @ + 1]
      BY <1>7, Zenon DEF Rehomed
    <2> HIDE DEF key, value, order, i, s, q
    <2>12. /\ Fills(r, q, i, key, value, order)
           /\ q.length = r.length /\ q.used = r.used /\ q.nextSequence = r.nextSequence
           /\ q \in TableOf(r.capacity)
      BY <1>3, <2>2, <2>4, <2>10, FilledIs, Zenon DEF q
    <2>13. Typed(q) /\ q.used \in Nat /\ q.length \in Nat /\ q.nextSequence \in Nat
      <3>1. Typed(q)
        BY <2>12, Zenon DEF Fills
      <3> QED
        BY <3>1, TypedIs
    <2>14. s = [q EXCEPT !.length = q.length, !.used = q.used + 1, !.nextSequence = q.nextSequence]
      BY <2>11, <2>12 DEF TableOf
    <2>15. /\ Typed(s) /\ s.length = q.length /\ s.used = q.used + 1 /\ s.nextSequence = q.nextSequence
           /\ s.capacity = q.capacity /\ s.states = q.states
           /\ s.keys = q.keys /\ s.values = q.values /\ s.sequence = q.sequence
           /\ s.keyInitialized = q.keyInitialized /\ s.valueInitialized = q.valueInitialized
      <3>1. q.used + 1 \in Nat
        BY <2>13
      <3>2. Counts(q, s, q.length, q.used + 1, q.nextSequence)
        BY <2>13, <2>14, <3>1, CountedIs
      <3> QED
        BY <3>2, Zenon DEF Counts
    <2>16. Fills(r, s, i, key, value, order)
      BY <2>12, <2>15 DEF Fills
    <2>17. ordered => order < s.nextSequence /\ \A j \in Full(r) : r.sequence[j] # order
      <3> SUFFICES ASSUME ordered PROVE order < s.nextSequence /\ \A j \in Full(r) : r.sequence[j] # order
        OBVIOUS
      <3>1. order < s.nextSequence
        BY <1>1, <1>2, <2>1, <2>12, <2>15 DEF Numbered, order
      <3>2. \A h \in Full(t) : h < m => t.sequence[h] # order
        BY <1>1, <2>1, <2>8, Zenon DEF Numbered, order
      <3>3. \A j \in Full(r) : r.sequence[j] # order
        BY <2>6, <2>7, <3>2, ZenonT(60)
      <3> QED
        BY <3>1, <3>3
    <2>18. s.nextSequence >= r.nextSequence
      BY <2>12, <2>13, <2>15
    <2>19. /\ Kept(s) /\ Unique(s) /\ Found(s) /\ Numbered(s)
           /\ Full(s) = Full(r) \cup {i} /\ i \notin Full(r)
           /\ NonEmpty(s) = NonEmpty(r) \cup {i}
           /\ Entries(s) = Entries(r) \cup
                {[key |-> key, value |-> value, order |-> IF ordered THEN order ELSE 0]}
      <3>1. Follows(r, s, order)
        BY <2>17, <2>18, Zenon DEF Follows
      <3>2. Gains(r, s, i, [key |-> key, value |-> value, order |-> IF ordered THEN order ELSE 0])
        BY <1>3, <2>2, <2>4, <2>5, <2>10, <2>16, <3>1, FillKeeps
      <3> QED
        BY <3>2, Zenon DEF Gains
    <2>20. Entries(s) = Before(t, m + 1)
      <3>1. [key |-> key, value |-> value, order |-> IF ordered THEN order ELSE 0] = EntryOf(t, m)
        BY Zenon DEF EntryOf, key, value, order
      <3>2. {j \in Full(t) : j < m + 1} = {j \in Full(t) : j < m} \cup {m}
        BY <1>4, <2>1
      <3>3. Before(t, m + 1) = Before(t, m) \cup {EntryOf(t, m)}
        BY <3>2 DEF Before
      <3> QED
        BY <1>2, <2>19, <3>1, <3>3, Zenon
    <2>21. s.used = Cardinality(Full(s)) /\ NonEmpty(s) = Full(s)
      <3>1. IsFiniteSet(Full(r)) /\ Cardinality(Full(r)) \in Nat
        BY <1>3, FullFinite
      <3>2. Cardinality(Full(s)) = Cardinality(Full(r)) + 1
        BY <2>19, <3>1, FS_AddElement
      <3> QED
        BY <1>2, <2>12, <2>15, <2>19, <3>2
    <2>22. s.used < n
      <3>1. IsFiniteSet(Entries(t)) /\ Cardinality(Entries(t)) = Cardinality(Full(t))
        BY <1>1, EntriesCount
      <3>2. Cardinality(Entries(s)) = Cardinality(Full(s))
        BY <2>15, <2>19, EntriesCount
      <3>3. Entries(s) \subseteq Entries(t)
        BY <2>20, EntriesAre DEF Before
      <3>4. Cardinality(Entries(s)) <= Cardinality(Entries(t))
        BY <3>1, <3>3, FS_Subset
      <3>5. s.used <= t.length
        BY <2>21, <3>1, <3>2, <3>4
      <3>6. s.used \in Nat /\ t.length \in Nat
        BY <1>1, <2>15, TypedIs
      <3> QED
        BY <3>5, <3>6
    <2>23. s.capacity = n
      BY <1>2, <2>16, Zenon DEF Fills
    <2>24. Room(s)
      <3>1. s.used \in Nat
        BY <2>15, TypedIs
      <3> QED
        BY <2>21, <2>22, <2>23, <3>1 DEF Room
    <2>25. s.length = t.length /\ s.nextSequence = t.nextSequence
      BY <1>2, <2>12, <2>15, Zenon
    <2>26. Moved(t, n, m + 1, s)
      BY <2>15, <2>19, <2>20, <2>21, <2>23, <2>24, <2>25, Zenon DEF Moved, Well
    <2> QED
      BY <2>26, Zenon DEF s
  <1> QED
    BY <1>6, <1>7, Zenon

\* A resize keeps every entry, and drops the tombstones.
LEMMA ResizeIs ==
    ASSUME NEW t, Well(t), ordered \in BOOLEAN, t.length = Cardinality(Full(t)),
           NEW n \in Nat \ {0}, t.length < n, NEW r, r = resize(t, n)
    PROVE  /\ Well(r) /\ r.capacity = n /\ r.length = t.length /\ r.nextSequence = t.nextSequence
           /\ r.used = t.length /\ Cardinality(Full(r)) = t.length
           /\ Entries(r) = Entries(t)
  <1> DEFINE start == [Empty(n) EXCEPT !.length = t.length, !.nextSequence = t.nextSequence]
             c == t.capacity
             moved == CHOOSE f : Moves(t, start, c, f)
  <1>1. Typed(t) /\ Unique(t)
    BY DEF Well
  <1>2. c \in Nat \ {0} /\ t.length \in Nat /\ t.nextSequence \in Nat
    BY <1>1, TypedIs
  <1>3. r = moved[c]
    BY Zenon DEF resize, Moves
  <1>4. Moves(t, start, c, moved)
    <2>0. c \in Nat
      BY <1>2
    <2> HIDE DEF start, c
    <2>1. \E f : Moves(t, start, c, f)
      BY <2>0, MovesExist, Zenon
    <2> QED
      BY <2>1, Zenon
  <1> DEFINE e == Empty(n)
  <1>5. /\ Well(e) /\ e.capacity = n /\ e.length = 0 /\ e.used = 0 /\ e.nextSequence = 0
        /\ Full(e) = {} /\ NonEmpty(e) = {} /\ Entries(e) = {}
    BY EmptyIs, Zenon
  <1>6. e \in TableOf(n) /\ Typed(e) /\ Kept(e)
    BY <1>5, Zenon DEF Well, Typed
  <1>7. start = [e EXCEPT !.length = t.length, !.nextSequence = t.nextSequence]
    BY Zenon
  <1> HIDE DEF e, start
  <1>8. Moved(t, n, 0, start)
    <2>1. start = [e EXCEPT !.length = t.length, !.used = e.used, !.nextSequence = t.nextSequence]
      BY <1>6, <1>7 DEF TableOf
    <2>2. e.used \in Nat
      BY <1>5
    <2>3. /\ Typed(start) /\ start.length = t.length /\ start.used = e.used
          /\ start.nextSequence = t.nextSequence
          /\ start.capacity = e.capacity /\ start.states = e.states
          /\ start.keys = e.keys /\ start.values = e.values /\ start.sequence = e.sequence
          /\ start.keyInitialized = e.keyInitialized /\ start.valueInitialized = e.valueInitialized
      <3>1. Counts(e, start, t.length, e.used, t.nextSequence)
        BY <1>2, <1>6, <2>1, <2>2, CountedIs
      <3> QED
        BY <3>1, Zenon DEF Counts
    <2>4. Full(start) = {} /\ NonEmpty(start) = {} /\ Slots(start) = Slots(e)
      BY <1>5, <2>3, Zenon DEF Full, NonEmpty, Slots
    <2>5. Entries(start) = {} /\ Unique(start) /\ Found(start) /\ Numbered(start)
      BY <2>4 DEF Entries, Unique, Found, Numbered
    <2>6. Kept(start)
      BY <1>6, <2>3, <2>4 DEF Kept
    <2>7. Cardinality({}) = 0
      BY FS_EmptySet
    <2>8. Room(start)
      BY <1>5, <2>3, <2>4, <2>7 DEF Room
    <2>9. Before(t, 0) = {}
      <3>1. {j \in Full(t) : j < 0} = {}
        <4>1. Full(t) \subseteq Nat
          BY <1>1, <1>2, TypedIs DEF Slots
        <4> QED
          BY <4>1
      <3> QED
        BY <3>1 DEF Before
    <2> QED
      BY <1>5, <2>3, <2>4, <2>5, <2>6, <2>7, <2>8, <2>9 DEF Moved, Well
  <1>9. moved[0] = start /\ \A m \in 0 .. c - 1 : moved[m + 1] = Rehomed(t, moved[m], m)
    <2> HIDE DEF moved, c
    <2>1. moved = [m \in 0 .. c |-> IF m = 0 THEN start ELSE Rehomed(t, moved[m - 1], m - 1)]
      BY <1>4, Zenon DEF Moves
    <2>2. \A m \in 0 .. c : moved[m] = IF m = 0 THEN start ELSE Rehomed(t, moved[m - 1], m - 1)
      BY <2>1, Zenon
    <2>3. \A m \in 0 .. c - 1 : m + 1 \in 0 .. c /\ m + 1 # 0 /\ (m + 1) - 1 = m
      BY <1>2
    <2>4. 0 \in 0 .. c
      BY <1>2
    <2> QED
      BY <2>2, <2>3, <2>4, Zenon
  <1> DEFINE Bad == {m \in 0 .. c : ~Moved(t, n, m, moved[m])}
  <1> HIDE DEF moved
  <1>10. Bad = {}
    <2> SUFFICES ASSUME Bad # {} PROVE FALSE
      OBVIOUS
    <2>1. Bad \subseteq Nat
      BY <1>2
    <2>2. PICK m \in Bad : \A l \in Bad : m <= l
      BY <2>1, LeastNumber
    <2>3. m \in 0 .. c /\ ~Moved(t, n, m, moved[m])
      BY <2>2
    <2>4. m # 0
      BY <1>8, <1>9, <2>3
    <2>5. m - 1 \in 0 .. c - 1 /\ (m - 1) + 1 = m /\ ~(m <= m - 1) /\ m - 1 \in 0 .. c
      BY <1>2, <2>3, <2>4
    <2>6. Moved(t, n, m - 1, moved[m - 1])
      BY <2>2, <2>5
    <2>7. m - 1 \in Slots(t)
      BY <2>5 DEF Slots
    <2>8. Moved(t, n, (m - 1) + 1, Rehomed(t, moved[m - 1], m - 1))
      BY <2>6, <2>7, MoveOne
    <2>9. moved[(m - 1) + 1] = Rehomed(t, moved[m - 1], m - 1)
      BY <1>9, <2>5, Zenon
    <2>10. Moved(t, n, m, moved[m])
      BY <2>5, <2>8, <2>9, Zenon
    <2> QED
      BY <2>3, <2>10
  <1>11. Moved(t, n, c, r)
    <2>1. c \in 0 .. c
      BY <1>2
    <2> QED
      BY <1>3, <1>10, <2>1
  <1>12. Before(t, c) = Entries(t)
    <2>1. \A j \in Full(t) : j < c
      BY <1>1, <1>2, TypedIs DEF Slots
    <2>2. {j \in Full(t) : j < c} = Full(t)
      BY <2>1
    <2> QED
      BY <2>2, EntriesAre, Zenon DEF Before
  <1>13. /\ Well(r) /\ r.capacity = n /\ r.length = t.length /\ r.nextSequence = t.nextSequence
         /\ r.used = Cardinality(Full(r)) /\ Entries(r) = Entries(t)
    BY <1>11, <1>12, Zenon DEF Moved
  <1>14. Cardinality(Full(r)) = Cardinality(Full(t))
    <2>1. Typed(r) /\ Unique(r)
      BY <1>13 DEF Well
    <2> QED
      BY <1>1, <1>13, <2>1, EntriesCount
  <1> QED
    BY <1>13, <1>14

\* Doubling ends at the first size that is enough, and in particular is larger.
LEMMA DoubledIs ==
    ASSUME NEW c \in Nat \ {0}, NEW minimum \in Nat, c < minimum
    PROVE  Doubled(c, minimum) \in Nat /\ Doubled(c, minimum) >= minimum
  <1> DEFINE D == c .. 2 * minimum
             top == 2 * minimum + 1
             doubles(f) == f = [d \in D |-> IF d >= minimum THEN d ELSE f[2 * d]]
             Near(m) == {d \in D : top - d <= m}
             Upto(m) == \E f : f = [d \in Near(m) |-> IF d >= minimum THEN d ELSE f[2 * d]]
             Without == {m \in Nat : ~Upto(m)}
             doubled == CHOOSE f : doubles(f)
  <1>1. Upto(0)
    <2>1. Near(0) = {}
      OBVIOUS
    <2> DEFINE f == [d \in {} |-> 0]
    <2>2. f = [d \in Near(0) |-> IF d >= minimum THEN d ELSE f[2 * d]]
      BY <2>1
    <2> QED
      BY <2>2
  <1>2. ASSUME NEW m \in Nat, Upto(m) PROVE Upto(m + 1)
    <2>1. PICK f : f = [d \in Near(m) |-> IF d >= minimum THEN d ELSE f[2 * d]]
      BY <1>2
    <2> DEFINE g == [d \in Near(m + 1) |-> IF d >= minimum THEN d ELSE f[2 * d]]
    <2>2. \A d \in Near(m + 1) : ~(d >= minimum) => 2 * d \in Near(m)
      OBVIOUS
    <2>3. \A d \in Near(m) : d \in Near(m + 1)
      OBVIOUS
    <2> HIDE DEF Near
    <2>4. \A d \in Near(m) : g[d] = f[d]
      BY <2>1, <2>3, Zenon
    <2>5. g = [d \in Near(m + 1) |-> IF d >= minimum THEN d ELSE g[2 * d]]
      BY <2>2, <2>4, Zenon
    <2> QED
      BY <2>5, Zenon
  <1> HIDE DEF Upto
  <1>3. Without = {}
    <2> SUFFICES ASSUME Without # {} PROVE FALSE
      OBVIOUS
    <2>1. PICK m \in Without : \A l \in Without : m <= l
      BY LeastNumber
    <2>2. m \in Nat \ {0}
      BY <1>1, <2>1
    <2>3. m - 1 \in Nat /\ (m - 1) + 1 = m /\ ~(m <= m - 1)
      BY <2>2
    <2>4. Upto(m - 1)
      BY <2>1, <2>3
    <2> QED
      BY <1>2, <2>1, <2>3, <2>4
  <1>4. top \in Nat /\ Near(top) = D
    OBVIOUS
  <1>5. Upto(top)
    BY <1>3, <1>4
  <1>6. \E f : doubles(f)
    BY <1>4, <1>5, Zenon DEF Upto
  <1>7. doubles(doubled)
    BY <1>6, Zenon
  <1>8. Doubled(c, minimum) = doubled[c]
    BY Zenon DEF Doubled
  <1> DEFINE Good(d) == doubled[d] \in Nat /\ doubled[d] >= minimum
             Bad == {l \in Nat : \E d \in D : l = top - d /\ ~Good(d)}
  <1> HIDE DEF doubled
  <1>9. \A d \in D : doubled[d] = IF d >= minimum THEN d ELSE doubled[2 * d]
    BY <1>7, Zenon
  <1>10. \A d \in D : ~(d >= minimum) => 2 * d \in D /\ top - 2 * d \in Nat /\ ~(top - d <= top - 2 * d)
    OBVIOUS
  <1>11. \A d \in D : d \in Nat /\ top - d \in Nat
    OBVIOUS
  <1>12. Bad = {}
    <2> SUFFICES ASSUME Bad # {} PROVE FALSE
      OBVIOUS
    <2>1. PICK l \in Bad : \A h \in Bad : l <= h
      BY LeastNumber
    <2>2. PICK d \in D : l = top - d /\ ~Good(d)
      BY <2>1
    <2>3. ~(d >= minimum)
      BY <1>9, <1>11, <2>2
    <2>4. ~Good(2 * d)
      BY <1>9, <2>2, <2>3
    <2> HIDE DEF Good, top, D
    <2>5. top - 2 * d \in Bad
      BY <1>10, <2>2, <2>3, <2>4
    <2> QED
      BY <1>10, <2>1, <2>2, <2>3, <2>5
  <1>13. c \in D
    OBVIOUS
  <1>14. Good(c)
    <2> HIDE DEF Good, top, D
    <2> QED
      BY <1>11, <1>12, <1>13
  <1> QED
    BY <1>8, <1>14

-----------------------------------------------------------------------------
(* Entries: what is owned, and how a dictionary sees them.                     *)

Entry == [key : Instances, value : Payloads, order : Nat]
Proper(S) == /\ S \subseteq Entry
             /\ \A e \in S : e.value.of = e.key.is
             /\ \A d, e \in S : d.key.is = e.key.is => d = e
OwnedBy(S) == {e.key : e \in S} \cup {e.value : e \in S}
KeysOf(S) == {e.key.is : e \in S}

LEMMA EntriesProper ==
    ASSUME NEW t, Well(t), ordered \in BOOLEAN
    PROVE  Proper(Entries(t))
  <1>1. Typed(t) /\ Kept(t) /\ Unique(t)
    BY DEF Well
  <1>2. Full(t) = {i \in Slots(t) : t.states[i] = 1}
    BY <1>1, FullIs
  <1>3. t.sequence \in [Slots(t) -> Nat]
    BY <1>1, TypedIs
  <1>4. \A i \in Full(t) : /\ t.keys[i] \in Instances /\ t.values[i] \in Payloads
                           /\ t.values[i].of = t.keys[i].is
    BY <1>1, <1>2, Zenon DEF Kept
  <1>5. \A i \in Full(t) : t.sequence[i] \in Nat
    BY <1>2, <1>3
  <1>6. \A i \in Full(t) : EntryOf(t, i) \in Entry
    BY <1>4, <1>5 DEF EntryOf, Entry
  <1>7. \A i : EntryOf(t, i).key = t.keys[i] /\ EntryOf(t, i).value = t.values[i]
    BY DEF EntryOf
  <1> HIDE DEF EntryOf
  <1>8. \A e \in Entries(t) : \E i \in Full(t) : e = EntryOf(t, i)
    BY EntriesAre, Zenon
  <1>9. \A e \in Entries(t) : e \in Entry /\ e.value.of = e.key.is
    BY <1>4, <1>6, <1>7, <1>8, ZenonT(60)
  <1>10. ASSUME NEW d \in Entries(t), NEW e \in Entries(t), d.key.is = e.key.is PROVE d = e
    <2>1. PICK i \in Full(t) : d = EntryOf(t, i)
      BY <1>8
    <2>2. PICK j \in Full(t) : e = EntryOf(t, j)
      BY <1>8
    <2>3. t.keys[i].is = t.keys[j].is
      BY <1>7, <1>10, <2>1, <2>2, Zenon
    <2> QED
      BY <1>1, <2>1, <2>2, <2>3, Zenon DEF Unique
  <1> QED
    BY <1>9, <1>10, Zenon DEF Proper

LEMMA OwnsAre ==
    ASSUME NEW t, Well(t)
    PROVE  Owns(t) = OwnedBy(Entries(t))
  <1>1. Typed(t) /\ Kept(t)
    BY DEF Well
  <1>2. Full(t) = {i \in Slots(t) : t.states[i] = 1}
    BY <1>1, FullIs
  <1>3. DOMAIN t.keys = Slots(t) /\ DOMAIN t.values = Slots(t)
    BY <1>1, TypedIs
  <1>4. \A i : i \in Full(t) <=> i \in Slots(t) /\ t.keyInitialized[i]
    BY <1>1, <1>2, Zenon DEF Kept
  <1>5. \A i : i \in Full(t) <=> i \in Slots(t) /\ t.valueInitialized[i]
    BY <1>1, <1>2, Zenon DEF Kept
  <1>6. \A i : EntryOf(t, i).key = t.keys[i] /\ EntryOf(t, i).value = t.values[i]
    BY DEF EntryOf
  <1> HIDE DEF EntryOf
  <1>7. Entries(t) = {EntryOf(t, i) : i \in Full(t)}
    BY EntriesAre, Zenon
  <1>8. {t.keys[i] : i \in {j \in DOMAIN t.keys : t.keyInitialized[j]}} = {e.key : e \in Entries(t)}
    <2>1. {j \in DOMAIN t.keys : t.keyInitialized[j]} = Full(t)
      BY <1>3, <1>4, Zenon
    <2>2. {t.keys[i] : i \in Full(t)} = {e.key : e \in Entries(t)}
      BY <1>6, <1>7
    <2> QED
      BY <2>1, <2>2, Zenon
  <1>9. {t.values[i] : i \in {j \in DOMAIN t.values : t.valueInitialized[j]}} = {e.value : e \in Entries(t)}
    <2>1. {j \in DOMAIN t.values : t.valueInitialized[j]} = Full(t)
      BY <1>3, <1>5, Zenon
    <2>2. {t.values[i] : i \in Full(t)} = {e.value : e \in Entries(t)}
      BY <1>6, <1>7
    <2> QED
      BY <2>1, <2>2, Zenon
  <1> QED
    BY <1>8, <1>9, Zenon DEF Owns, OwnedBy

LEMMA Apart == Instances \cap Payloads = {}
  <1> SUFFICES ASSUME NEW x \in Instances, x \in Payloads PROVE FALSE
    OBVIOUS
  <1>1. DOMAIN x = {"is", "copy"}
    BY DEF Instances
  <1>2. DOMAIN x = {"of", "copy"}
    BY DEF Payloads
  <1> QED
    BY <1>1, <1>2

\* Keys and values of one entry are not those of another.
LEMMA OwnedOnceEach ==
    ASSUME NEW S, Proper(S)
    PROVE  /\ \A d, e \in S : d.key = e.key \/ d.value = e.value => d = e
           /\ \A d, e \in S : d.key # e.value
           /\ \A e \in S : e.key \in Instances /\ e.value \in Payloads /\ e.key.is \in Keys
  <1>1. \A e \in S : e.key \in Instances /\ e.value \in Payloads /\ e.value.of = e.key.is
    BY DEF Proper, Entry
  <1>2. \A d, e \in S : d.key.is = e.key.is => d = e
    BY DEF Proper
  <1>3. \A d, e \in S : d.key = e.key \/ d.value = e.value => d = e
    <2> SUFFICES ASSUME NEW d \in S, NEW e \in S, d.key = e.key \/ d.value = e.value PROVE d.key.is = e.key.is
      BY <1>2, Zenon
    <2>1. CASE d.key = e.key
      BY <2>1
    <2>2. CASE d.value = e.value
      BY <1>1, <2>2
    <2> QED
      BY <2>1, <2>2
  <1>4. \A d, e \in S : d.key # e.value
    BY <1>1, Apart
  <1>5. \A e \in S : e.key.is \in Keys
    BY <1>1 DEF Instances
  <1> QED
    BY <1>1, <1>3, <1>4, <1>5

LEMMA OwnedCount ==
    ASSUME NEW S, Proper(S), IsFiniteSet(S)
    PROVE  /\ Cardinality(OwnedBy(S)) = 2 * Cardinality(S)
           /\ Cardinality(KeysOf(S)) = Cardinality(S)
  <1> DEFINE K == {e.key : e \in S}
             V == {e.value : e \in S}
             f == [e \in S |-> e.key]
             g == [e \in S |-> e.value]
             h == [e \in S |-> e.key.is]
  <1>1. /\ \A d, e \in S : d.key = e.key => d = e
        /\ \A d, e \in S : d.value = e.value => d = e
        /\ \A d, e \in S : d.key # e.value
        /\ \A d, e \in S : d.key.is = e.key.is => d = e
    BY OwnedOnceEach, Zenon DEF Proper
  <1>2. f \in [S -> K] /\ (\A d, e \in S : f[d] = f[e] => d = e) /\ \A x \in K : \E e \in S : f[e] = x
    BY <1>1
  <1>3. g \in [S -> V] /\ (\A d, e \in S : g[d] = g[e] => d = e) /\ \A x \in V : \E e \in S : g[e] = x
    BY <1>1
  <1>4. h \in [S -> KeysOf(S)] /\ (\A d, e \in S : h[d] = h[e] => d = e)
        /\ \A x \in KeysOf(S) : \E e \in S : h[e] = x
    BY <1>1 DEF KeysOf
  <1>5. K \cap V = {}
    BY <1>1
  <1>6. OwnedBy(S) = K \cup V
    BY Zenon DEF OwnedBy
  <1> HIDE DEF K, V, f, g, h
  <1>7. f \in Bijection(S, K) /\ g \in Bijection(S, V) /\ h \in Bijection(S, KeysOf(S))
    BY <1>2, <1>3, <1>4, Zenon DEF Bijection, Injection, Surjection, IsInjective
  <1>8. ExistsBijection(S, K) /\ ExistsBijection(S, V) /\ ExistsBijection(S, KeysOf(S))
    BY <1>7, Zenon DEF ExistsBijection
  <1>9. IsFiniteSet(K) /\ Cardinality(K) = Cardinality(S)
    BY <1>8, FS_Bijection, Zenon
  <1>10. IsFiniteSet(V) /\ Cardinality(V) = Cardinality(S)
    BY <1>8, FS_Bijection, Zenon
  <1>11. Cardinality(KeysOf(S)) = Cardinality(S)
    BY <1>8, FS_Bijection, Zenon
  <1>12. Cardinality(K \cup V) = Cardinality(K) + Cardinality(V) - Cardinality(K \cap V)
    BY <1>9, <1>10, FS_Union, Zenon
  <1>13. Cardinality(K \cap V) = 0 /\ Cardinality(S) \in Nat
    BY <1>5, FS_EmptySet, FS_CardinalityType
  <1> QED
    BY <1>6, <1>9, <1>10, <1>11, <1>12, <1>13

\* Of the two copies of a key and of a value, one is not owned.
LEMMA SpareIs ==
    ASSUME NEW S, Proper(S), owned = OwnedBy(S), NEW k \in Keys
    PROVE  /\ Spare(k) \in Instances /\ Spare(k).is = k /\ Spare(k) \notin owned
           /\ SpareValue(k) \in Payloads /\ SpareValue(k).of = k /\ SpareValue(k) \notin owned
  <1>1. /\ \A d, e \in S : d.key.is = e.key.is => d = e
        /\ \A e \in S : e.key \in Instances /\ e.value \in Payloads /\ e.value.of = e.key.is
    BY OwnedOnceEach, Zenon DEF Proper
  <1>2. \A x \in Instances : x \in owned => \E e \in S : x = e.key
    BY <1>1, Apart DEF OwnedBy
  <1>3. \A x \in Payloads : x \in owned => \E e \in S : x = e.value
    BY <1>1, Apart DEF OwnedBy
  <1>4. \E x \in Instances : x.is = k /\ x \notin owned
    <2> DEFINE a == [is |-> k, copy |-> 1]
               b == [is |-> k, copy |-> 2]
    <2>1. a \in Instances /\ b \in Instances /\ a.is = k /\ b.is = k /\ a # b
      BY DEF Instances
    <2> HIDE DEF a, b
    <2>2. ~(a \in owned /\ b \in owned)
      <3> SUFFICES ASSUME a \in owned, b \in owned PROVE FALSE
        OBVIOUS
      <3>1. PICK d \in S : a = d.key
        BY <1>2, <2>1, Zenon
      <3>2. PICK e \in S : b = e.key
        BY <1>2, <2>1, Zenon
      <3>3. d.key.is = e.key.is
        BY <2>1, <3>1, <3>2
      <3> QED
        BY <1>1, <2>1, <3>1, <3>2, <3>3, Zenon
    <2> QED
      BY <2>1, <2>2, Zenon
  <1>5. \E x \in Payloads : x.of = k /\ x \notin owned
    <2> DEFINE a == [of |-> k, copy |-> 1]
               b == [of |-> k, copy |-> 2]
    <2>1. a \in Payloads /\ b \in Payloads /\ a.of = k /\ b.of = k /\ a # b
      BY DEF Payloads
    <2> HIDE DEF a, b
    <2>2. ~(a \in owned /\ b \in owned)
      <3> SUFFICES ASSUME a \in owned, b \in owned PROVE FALSE
        OBVIOUS
      <3>1. PICK d \in S : a = d.value
        BY <1>3, <2>1, Zenon
      <3>2. PICK e \in S : b = e.value
        BY <1>3, <2>1, Zenon
      <3>3. d.key.is = e.key.is
        BY <1>1, <2>1, <3>1, <3>2
      <3> QED
        BY <1>1, <2>1, <3>1, <3>2, <3>3, Zenon
    <2> QED
      BY <2>1, <2>2, Zenon
  <1> QED
    BY <1>4, <1>5, Zenon DEF Spare, SpareValue

\* One entry more, one less, one with another value.
LEMMA OwnedMore ==
    ASSUME NEW S, NEW n
    PROVE  OwnedBy(S \cup {n}) = OwnedBy(S) \cup {n.key, n.value}
  BY DEF OwnedBy

LEMMA OwnedLess ==
    ASSUME NEW S, Proper(S), NEW d \in S
    PROVE  OwnedBy(S \ {d}) = OwnedBy(S) \ {d.key, d.value}
  <1>1. /\ \A a, b \in S : a.key = b.key \/ a.value = b.value => a = b
        /\ \A a, b \in S : a.key # b.value
    BY OwnedOnceEach, Zenon
  <1> QED
    BY <1>1 DEF OwnedBy

LEMMA OwnedReplaced ==
    ASSUME NEW S, Proper(S), NEW d \in S, NEW n, n.key = d.key, n.value \notin OwnedBy(S)
    PROVE  OwnedBy((S \ {d}) \cup {n}) = (OwnedBy(S) \ {d.value}) \cup {n.value}
  <1>1. OwnedBy((S \ {d}) \cup {n}) = OwnedBy(S \ {d}) \cup {n.key, n.value}
    BY OwnedMore
  <1>2. OwnedBy(S \ {d}) = OwnedBy(S) \ {d.key, d.value}
    BY OwnedLess
  <1>3. d.key # d.value /\ d.key \in OwnedBy(S)
    BY OwnedOnceEach DEF OwnedBy
  <1> QED
    BY <1>1, <1>2, <1>3

LEMMA ValueOfIs ==
    ASSUME NEW S, Proper(S)
    PROVE  /\ DOMAIN ValueOf(S) = KeysOf(S)
           /\ \A e \in S : ValueOf(S)[e.key.is] = e.value
           /\ ValueOf(S) = [k \in KeysOf(S) |-> ValueOf(S)[k]]
  <1>1. ValueOf(S) = [k \in KeysOf(S) |-> (CHOOSE e \in S : e.key.is = k).value]
    BY Zenon DEF ValueOf, KeysOf
  <1>2. ASSUME NEW e \in S PROVE ValueOf(S)[e.key.is] = e.value
    <2> DEFINE d == CHOOSE x \in S : x.key.is = e.key.is
    <2>1. d \in S /\ d.key.is = e.key.is
      BY Zenon
    <2>2. d = e
      BY <2>1, Zenon DEF Proper
    <2>3. e.key.is \in KeysOf(S)
      BY DEF KeysOf
    <2>4. ValueOf(S)[e.key.is] = d.value
      BY <1>1, <2>3, Zenon
    <2> QED
      BY <2>2, <2>4, Zenon
  <1> QED
    BY <1>1, <1>2, Zenon

\* A function with the values of the entries is ValueOf.
ReadsAs(S, f) == f = [k \in KeysOf(S) |-> f[k]] /\ \A e \in S : f[e.key.is] = e.value

LEMMA ValueOfUnique ==
    ASSUME NEW S, Proper(S), NEW f, ReadsAs(S, f)
    PROVE  ValueOf(S) = f
  <1>0. f = [k \in KeysOf(S) |-> f[k]] /\ \A e \in S : f[e.key.is] = e.value
    BY Zenon DEF ReadsAs
  <1>1. \A k \in KeysOf(S) : \E e \in S : k = e.key.is
    BY DEF KeysOf
  <1>2. ASSUME NEW k \in KeysOf(S) PROVE f[k] = ValueOf(S)[k]
    <2>1. PICK e \in S : k = e.key.is
      BY <1>1
    <2>2. ValueOf(S)[e.key.is] = e.value
      BY ValueOfIs
    <2> QED
      BY <1>0, <2>1, <2>2
  <1>3. ValueOf(S) = [k \in KeysOf(S) |-> ValueOf(S)[k]]
    BY ValueOfIs, Zenon
  <1>4. \A k \in KeysOf(S) : f[k] = ValueOf(S)[k]
    BY <1>2
  <1>5. [k \in KeysOf(S) |-> f[k]] = [k \in KeysOf(S) |-> ValueOf(S)[k]]
    BY <1>4, Zenon
  <1> QED
    BY <1>0, <1>3, <1>5, Zenon

Precedes(S, j, k) == \E d, e \in S : d.key.is = j /\ e.key.is = k /\ d.order < e.order

LEMMA EarlierIs ==
    ASSUME NEW S, Proper(S), NEW j, NEW k
    PROVE  <<j, k>> \in Earlier(S) <=> Precedes(S, j, k)
  <1>1. \A e \in S : e.key.is \in Keys
    BY OwnedOnceEach, Zenon
  <1>2. ASSUME <<j, k>> \in Earlier(S)
        PROVE  \E d, e \in S : d.key.is = j /\ e.key.is = k /\ d.order < e.order
    BY <1>2 DEF Earlier
  <1>3. ASSUME NEW d \in S, NEW e \in S, d.order < e.order
        PROVE  <<d.key.is, e.key.is>> \in Earlier(S)
    BY <1>1, <1>3 DEF Earlier
  <1> QED
    BY <1>2, <1>3, Zenon DEF Precedes

Pairs(A) == A \subseteq Keys \X Keys
LEMMA EarlierPairs == \A S : Pairs(Earlier(S))
  BY DEF Earlier, Pairs

\* Sets of pairs are equal when they have the same pairs.
LEMMA SamePairs ==
    ASSUME NEW A, NEW B, Pairs(A), Pairs(B), \A j, k : <<j, k>> \in A <=> <<j, k>> \in B
    PROVE  A = B
  <1>1. \A p \in Keys \X Keys : \E j, k \in Keys : p = <<j, k>>
    OBVIOUS
  <1>2. ASSUME NEW p \in A PROVE p \in B
    <2>1. p \in Keys \X Keys
      BY DEF Pairs
    <2>2. PICK j, k \in Keys : p = <<j, k>>
      BY <1>1, <2>1
    <2> QED
      BY <2>2
  <1>3. ASSUME NEW p \in B PROVE p \in A
    <2>1. p \in Keys \X Keys
      BY DEF Pairs
    <2>2. PICK j, k \in Keys : p = <<j, k>>
      BY <1>1, <2>1
    <2> QED
      BY <2>2
  <1> QED
    BY <1>2, <1>3

\* An entry more, inserted after all the others; one with another value; one less.
Adds(S, R, k, v) ==
    /\ KeysOf(R) = KeysOf(S) \cup {k}
    /\ ValueOf(R) = [j \in KeysOf(S) \cup {k} |-> IF j = k THEN v ELSE ValueOf(S)[j]]
    /\ Earlier(R) = IF ordered THEN Earlier(S) \cup (KeysOf(S) \X {k}) ELSE Earlier(S)

LEMMA AddedView ==
    ASSUME NEW S, Proper(S), NEW n, n.key.is \notin KeysOf(S),
           ordered \in BOOLEAN, ordered => \A e \in S : e.order < n.order,
           ~ordered => \A e \in S \cup {n} : e.order = 0,
           NEW k, k = n.key.is, NEW R, R = S \cup {n}, Proper(R)
    PROVE  Adds(S, R, k, n.value)
  <1> DEFINE f == [j \in KeysOf(S) \cup {k} |-> IF j = k THEN n.value ELSE ValueOf(S)[j]]
  <1>1. KeysOf(R) = KeysOf(S) \cup {k}
    BY DEF KeysOf
  <1>2. \A e \in S : e.key.is \in KeysOf(S)
    BY DEF KeysOf
  <1>3. \A e \in R : f[e.key.is] = e.value
    <2>1. ASSUME NEW e \in S PROVE f[e.key.is] = e.value
      <3>1. e.key.is \in KeysOf(S) /\ e.key.is # k
        BY <1>2, Zenon
      <3>2. ValueOf(S)[e.key.is] = e.value
        BY ValueOfIs
      <3> QED
        BY <3>1, <3>2, Zenon
    <2>2. f[n.key.is] = n.value
      BY Zenon
    <2> HIDE DEF f
    <2> QED
      BY <2>1, <2>2
  <1>4. ValueOf(R) = f
    <2>1. f = [j \in KeysOf(R) |-> f[j]]
      BY <1>1, Zenon
    <2> HIDE DEF f
    <2>2. ReadsAs(R, f)
      BY <1>3, <2>1, Zenon DEF ReadsAs
    <2> QED
      BY <2>2, ValueOfUnique
  <1>5. \A e \in R : e.order \in Nat
    BY DEF Proper, Entry
  <1>6. ASSUME ordered PROVE Earlier(R) = Earlier(S) \cup (KeysOf(S) \X {k})
    <2>1. ASSUME NEW d \in R, NEW e \in R, d.order < e.order
          PROVE  d \in S /\ (e = n \/ e \in S)
      <3>1. CASE d = n
        BY <1>5, <1>6, <2>1, <3>1
      <3> QED
        BY <3>1
    <2>2. ASSUME NEW j, NEW l
          PROVE  <<j, l>> \in Earlier(R) <=> <<j, l>> \in Earlier(S) \cup (KeysOf(S) \X {k})
      <3>1. <<j, l>> \in Earlier(R) <=>
              \E d, e \in R : d.key.is = j /\ e.key.is = l /\ d.order < e.order
        BY EarlierIs DEF Precedes
      <3>2. <<j, l>> \in Earlier(S) <=>
              \E d, e \in S : d.key.is = j /\ e.key.is = l /\ d.order < e.order
        BY EarlierIs DEF Precedes
      <3>3. j \in KeysOf(S) <=> \E d \in S : d.key.is = j
        BY DEF KeysOf
      <3>4. <<j, l>> \in KeysOf(S) \X {k} <=> j \in KeysOf(S) /\ l = k
        OBVIOUS
      <3>5. ASSUME <<j, l>> \in Earlier(R) PROVE <<j, l>> \in Earlier(S) \cup (KeysOf(S) \X {k})
        BY <2>1, <3>1, <3>2, <3>3, <3>4, <3>5, Zenon
      <3>6. ASSUME <<j, l>> \in Earlier(S) \/ <<j, l>> \in KeysOf(S) \X {k} PROVE <<j, l>> \in Earlier(R)
        <4>1. CASE <<j, l>> \in Earlier(S)
          BY <3>1, <3>2, <4>1
        <4>2. CASE <<j, l>> \in KeysOf(S) \X {k}
          <5>1. PICK d \in S : d.key.is = j
            BY <3>3, <3>4, <4>2
          <5>2. d \in R /\ n \in R /\ d.order < n.order /\ n.key.is = l
            BY <1>6, <3>4, <4>2
          <5> QED
            BY <3>1, <5>1, <5>2
        <4> QED
          BY <3>6, <4>1, <4>2
      <3> QED
        BY <3>5, <3>6
    <2>3. Pairs(Earlier(S) \cup (KeysOf(S) \X {k}))
      <3>1. KeysOf(S) \subseteq Keys
        BY OwnedOnceEach DEF KeysOf
      <3>2. k \in Keys
        BY OwnedOnceEach
      <3> QED
        BY <3>1, <3>2, EarlierPairs DEF Pairs
    <2>4. \A j, l : <<j, l>> \in Earlier(R) <=> <<j, l>> \in Earlier(S) \cup (KeysOf(S) \X {k})
      BY <2>2, Zenon
    <2> QED
      BY <2>3, <2>4, EarlierPairs, SamePairs, ZenonT(60)
  <1>7. ASSUME ~ordered PROVE Earlier(R) = Earlier(S)
    <2>1. \A d, e \in R : ~(d.order < e.order)
      BY <1>7
    <2>2. ASSUME NEW j, NEW l PROVE <<j, l>> \notin Earlier(R) /\ <<j, l>> \notin Earlier(S)
      BY <2>1, EarlierIs DEF Precedes
    <2>3. \A j, l : <<j, l>> \in Earlier(R) <=> <<j, l>> \in Earlier(S)
      BY <2>2, Zenon
    <2> QED
      BY <2>3, EarlierPairs, SamePairs, Zenon
  <1>8. Earlier(R) = IF ordered THEN Earlier(S) \cup (KeysOf(S) \X {k}) ELSE Earlier(S)
    BY <1>6, <1>7
  <1> QED
    BY <1>1, <1>4, <1>8, Zenon DEF Adds

LEMMA ReplacedView ==
    ASSUME NEW S, Proper(S), NEW d \in S, NEW n, n.key = d.key, n.order = d.order,
           NEW R, R = (S \ {d}) \cup {n}, Proper(R)
    PROVE  /\ KeysOf(R) = KeysOf(S)
           /\ ValueOf(R) = [j \in KeysOf(S) |-> IF j = d.key.is THEN n.value ELSE ValueOf(S)[j]]
           /\ Earlier(R) = Earlier(S)
  <1> DEFINE k == d.key.is
             f == [j \in KeysOf(S) |-> IF j = k THEN n.value ELSE ValueOf(S)[j]]
  <1>1. KeysOf(R) = KeysOf(S)
    BY DEF KeysOf
  <1>2. \A e \in S : e.key.is \in KeysOf(S)
    BY DEF KeysOf
  <1>3. \A e \in R : f[e.key.is] = e.value
    <2>1. ASSUME NEW e \in S, e # d PROVE f[e.key.is] = e.value
      <3>1. e.key.is \in KeysOf(S) /\ e.key.is # k
        BY <1>2, <2>1, Zenon DEF Proper
      <3>2. ValueOf(S)[e.key.is] = e.value
        BY ValueOfIs
      <3> QED
        BY <3>1, <3>2, Zenon
    <2>2. f[n.key.is] = n.value
      <3>1. n.key.is = k /\ k \in KeysOf(S)
        BY <1>2, Zenon
      <3> QED
        BY <3>1, Zenon
    <2> HIDE DEF f
    <2> QED
      BY <2>1, <2>2
  <1>4. ValueOf(R) = f
    <2>1. f = [j \in KeysOf(R) |-> f[j]]
      BY <1>1, Zenon
    <2> HIDE DEF f
    <2>2. ReadsAs(R, f)
      BY <1>3, <2>1, Zenon DEF ReadsAs
    <2> QED
      BY <2>2, ValueOfUnique
  <1>5. \A x \in S : \E y \in R : y.key = x.key /\ y.order = x.order
    <2> TAKE x \in S
    <2>1. CASE x = d
      BY <2>1
    <2>2. CASE x # d
      BY <2>2
    <2> QED
      BY <2>1, <2>2
  <1>6. \A x \in R : \E y \in S : y.key = x.key /\ y.order = x.order
    OBVIOUS
  <1>7. ASSUME NEW j, NEW l PROVE <<j, l>> \in Earlier(R) <=> <<j, l>> \in Earlier(S)
    <2>1. <<j, l>> \in Earlier(R) <=>
            \E x, e \in R : x.key.is = j /\ e.key.is = l /\ x.order < e.order
      BY EarlierIs DEF Precedes
    <2>2. <<j, l>> \in Earlier(S) <=>
            \E x, e \in S : x.key.is = j /\ e.key.is = l /\ x.order < e.order
      BY EarlierIs DEF Precedes
    <2>3. ASSUME NEW x \in R, NEW e \in R, x.key.is = j, e.key.is = l, x.order < e.order
          PROVE  <<j, l>> \in Earlier(S)
      <3>1. PICK y \in S : y.key = x.key /\ y.order = x.order
        BY <1>6
      <3>2. PICK z \in S : z.key = e.key /\ z.order = e.order
        BY <1>6
      <3>3. y.key.is = j /\ z.key.is = l /\ y.order < z.order
        BY <2>3, <3>1, <3>2
      <3> QED
        BY <2>2, <3>3
    <2>4. ASSUME NEW x \in S, NEW e \in S, x.key.is = j, e.key.is = l, x.order < e.order
          PROVE  <<j, l>> \in Earlier(R)
      <3>1. PICK y \in R : y.key = x.key /\ y.order = x.order
        BY <1>5
      <3>2. PICK z \in R : z.key = e.key /\ z.order = e.order
        BY <1>5
      <3>3. y.key.is = j /\ z.key.is = l /\ y.order < z.order
        BY <2>4, <3>1, <3>2
      <3> QED
        BY <2>1, <3>3
    <2> QED
      BY <2>1, <2>2, <2>3, <2>4, Zenon
  <1>8. Earlier(R) = Earlier(S)
    BY <1>7, EarlierPairs, SamePairs, Zenon
  <1> QED
    BY <1>1, <1>4, <1>8, Zenon

LEMMA RemovedView ==
    ASSUME NEW S, Proper(S), NEW d \in S, NEW k, k = d.key.is, NEW R, R = S \ {d}
    PROVE  /\ Proper(R) /\ KeysOf(R) = KeysOf(S) \ {k} /\ k \in KeysOf(S)
           /\ ValueOf(R) = [j \in KeysOf(S) \ {k} |-> ValueOf(S)[j]]
           /\ Earlier(R) = {p \in Earlier(S) : p[1] # k /\ p[2] # k}
  <1> DEFINE f == [j \in KeysOf(S) \ {k} |-> ValueOf(S)[j]]
  <1>1. Proper(R)
    BY DEF Proper
  <1>2. \A e \in S : e \in R <=> e.key.is # k
    BY DEF Proper
  <1>3. KeysOf(R) = KeysOf(S) \ {k} /\ k \in KeysOf(S)
    BY <1>2 DEF KeysOf
  <1>4. \A e \in R : f[e.key.is] = e.value
    <2> SUFFICES ASSUME NEW e \in R PROVE f[e.key.is] = e.value
      OBVIOUS
    <2>1. e.key.is \in KeysOf(R)
      BY DEF KeysOf
    <2>2. ValueOf(S)[e.key.is] = e.value
      BY ValueOfIs
    <2> QED
      BY <1>3, <2>1, <2>2, Zenon
  <1>5. ValueOf(R) = f
    <2>1. f = [j \in KeysOf(R) |-> f[j]]
      BY <1>3, Zenon
    <2> HIDE DEF f
    <2>2. ReadsAs(R, f)
      BY <1>4, <2>1, Zenon DEF ReadsAs
    <2> QED
      BY <1>1, <2>2, ValueOfUnique
  <1>6. ASSUME NEW j, NEW l
        PROVE  <<j, l>> \in Earlier(R) <=> <<j, l>> \in {p \in Earlier(S) : p[1] # k /\ p[2] # k}
    <2>1. <<j, l>> \in Earlier(R) <=>
            \E x, e \in R : x.key.is = j /\ e.key.is = l /\ x.order < e.order
      BY <1>1, EarlierIs DEF Precedes
    <2>2. <<j, l>> \in Earlier(S) <=>
            \E x, e \in S : x.key.is = j /\ e.key.is = l /\ x.order < e.order
      BY EarlierIs DEF Precedes
    <2>3. <<j, l>> \in {p \in Earlier(S) : p[1] # k /\ p[2] # k}
            <=> <<j, l>> \in Earlier(S) /\ j # k /\ l # k
      OBVIOUS
    <2>4. R \subseteq S
      OBVIOUS
    <2>5. \A e \in R : e \in S /\ e.key.is # k
      BY <1>2, <2>4, Zenon
    <2>6. ASSUME NEW x \in S, NEW e \in S, x.key.is = j, e.key.is = l, x.order < e.order, j # k, l # k
          PROVE  <<j, l>> \in Earlier(R)
      BY <1>2, <2>1, <2>6, Zenon
    <2> QED
      BY <2>1, <2>2, <2>3, <2>5, <2>6, Zenon
  <1>7. Pairs({p \in Earlier(S) : p[1] # k /\ p[2] # k})
    BY EarlierPairs DEF Pairs
  <1>8. Earlier(R) = {p \in Earlier(S) : p[1] # k /\ p[2] # k}
    BY <1>6, <1>7, EarlierPairs, SamePairs, Zenon
  <1> QED
    BY <1>1, <1>3, <1>5, <1>8, Zenon

\* No entries.
LEMMA NothingView ==
    ASSUME NEW x
    PROVE  /\ Proper({}) /\ KeysOf({}) = {} /\ ValueOf({}) = [k \in {} |-> x] /\ Earlier({}) = {}
           /\ OwnedBy({}) = {}
  <1>1. Proper({})
    BY DEF Proper
  <1>2. KeysOf({}) = {} /\ OwnedBy({}) = {}
    BY DEF KeysOf, OwnedBy
  <1>3. ValueOf({}) = [k \in {} |-> x]
    BY DEF ValueOf
  <1>4. Earlier({}) = {}
    BY DEF Earlier
  <1> QED
    BY <1>1, <1>2, <1>3, <1>4

-----------------------------------------------------------------------------
(* Steps.                                                                      *)

\* An invariant of the next state, said of the next table.
LEMMA LaterTable ==
    ASSUME ordered' = ordered
    PROVE  /\ Well(table)' <=> Well(table')
           /\ Entries(table)' = Entries(table')
           /\ Full(table)' = Full(table')
           /\ Owns(table)' = Owns(table')
  <1>1. Full(table)' = Full(table') /\ Owns(table)' = Owns(table')
    BY Zenon DEF Full, Owns
  <1>2. Entries(table)' = Entries(table')
    BY Zenon DEF Entries, Full
  <1>3. Typed(table)' <=> Typed(table')
    BY Zenon DEF Typed, TableOf, Instances, Payloads
  <1>4. Kept(table)' <=> Kept(table')
    BY Zenon DEF Kept, Slots, Instances, Payloads
  <1>5. Unique(table)' <=> Unique(table')
    BY Zenon DEF Unique, Full
  <1>6. Found(table)' <=> Found(table')
    BY Zenon DEF Found, Full, Reaches, Slots, Probe, startIndex
  <1>7. Numbered(table)' <=> Numbered(table')
    BY Zenon DEF Numbered, Full
  <1>8. Room(table)' <=> Room(table')
    BY Zenon DEF Room, NonEmpty
  <1>9. Well(table)' <=> Well(table')
    BY <1>3, <1>4, <1>5, <1>6, <1>7, <1>8, Zenon DEF Well
  <1> QED
    BY <1>1, <1>2, <1>9

LEMMA OpenStep ==
    ASSUME TableInv, TableCall, Well(table'), table'.length = Cardinality(Full(table')),
           owned' = Owns(table'), shown' \in [length : Nat, capacity : Nat],
           shown'.length = table'.length
    PROVE  TableInv'
  <1>1. ordered' = ordered /\ stage' = stage /\ position' = position /\ stage = "open"
    BY DEF TableCall
  <1>2. ordered \in BOOLEAN /\ position = 0
    BY <1>1 DEF TableInv
  <1>3. Well(table)' /\ Full(table)' = Full(table') /\ Owns(table)' = Owns(table')
    BY <1>1, LaterTable
  <1>4. Ahead'
    <2>1. Typed(table')
      BY DEF Well
    <2>2. Full(table') \subseteq Nat /\ \A i \in Full(table') : table'.sequence[i] \in Nat
      <3>1. /\ Full(table') \subseteq Slots(table') /\ table'.capacity \in Nat
            /\ table'.sequence \in [Slots(table') -> Nat]
        BY <2>1, TypedIs
      <3>2. Slots(table') \subseteq Nat
        BY <3>1 DEF Slots
      <3> QED
        BY <3>1, <3>2
    <2>3. \A i \in Full(table') : position' <= IF ordered' THEN table'.sequence[i] ELSE i
      BY <1>1, <1>2, <2>2
    <2> QED
      BY <1>3, <2>3, Zenon DEF Ahead
  <1>5. /\ ordered' \in BOOLEAN /\ position' \in Nat /\ position' = 0 /\ stage' = "open"
    BY <1>1, <1>2
  <1> QED
    BY <1>3, <1>4, <1>5 DEF TableInv

\* Room for one more entry is made where it is needed.
LEMMA EnsuredIs ==
    ASSUME NEW t, Well(t), ordered \in BOOLEAN, t.length = Cardinality(Full(t)),
           NEW r, r = ensureInsertCapacity(t)
    PROVE  /\ Well(r) /\ r.length = t.length /\ Cardinality(Full(r)) = t.length
           /\ Entries(r) = Entries(t) /\ r.used + 1 < r.capacity
  <1>1. Typed(t) /\ Room(t)
    BY DEF Well
  <1>2. t.capacity \in Nat \ {0} /\ t.used \in Nat /\ t.length \in Nat
    BY <1>1, TypedIs
  <1>3. t.length <= t.used /\ t.used < t.capacity
    <2>1. Cardinality(Full(t)) <= Cardinality(NonEmpty(t)) /\ Cardinality(NonEmpty(t)) \in Nat
      BY <1>1, FullFinite
    <2>2. Cardinality(NonEmpty(t)) <= t.used /\ t.used < t.capacity
      BY <1>1, Zenon DEF Room
    <2> QED
      BY <1>2, <2>1, <2>2
  <1>4. CASE Crowded(t)
    <2>1. r = resize(t, t.capacity * 2)
      BY <1>4, Zenon DEF ensureInsertCapacity
    <2>2. t.capacity * 2 \in Nat \ {0} /\ t.length < t.capacity * 2 /\ t.length + 1 < t.capacity * 2
      BY <1>2, <1>3
    <2> DEFINE n == t.capacity * 2
    <2>3. n \in Nat \ {0} /\ t.length < n /\ t.length + 1 < n /\ r = resize(t, n)
      BY <2>1, <2>2
    <2> HIDE DEF n
    <2>4. /\ Well(r) /\ r.capacity = n /\ r.length = t.length
          /\ r.used = t.length /\ Cardinality(Full(r)) = t.length
          /\ Entries(r) = Entries(t)
      BY <2>3, ResizeIs
    <2> QED
      BY <2>3, <2>4
  <1>5. CASE ~Crowded(t)
    <2>1. r = t
      BY <1>5, Zenon DEF ensureInsertCapacity
    <2>2. t.used + 1 < t.capacity
      <3>1. ~(t.used + 1 >= t.capacity - t.capacity \div 4)
        BY <1>5, Zenon DEF Crowded
      <3> DEFINE c == t.capacity
                 u == t.used
      <3>2. c \in Nat /\ u \in Nat /\ ~(u + 1 >= c - c \div 4)
        BY <1>2, <3>1
      <3> HIDE DEF c, u
      <3>3. c \div 4 \in Nat
        BY <3>2
      <3>4. u + 1 < c
        BY <3>2, <3>3
      <3> QED
        BY <3>4 DEF c, u
    <2> QED
      BY <2>1, <2>2
  <1> QED
    BY <1>4, <1>5

\* Orders of entries: in a table that is not ordered there are none.
LEMMA OrdersAre ==
    ASSUME NEW t, Well(t), ordered \in BOOLEAN
    PROVE  /\ ordered => \A e \in Entries(t) : e.order < t.nextSequence
           /\ ~ordered => \A e \in Entries(t) : e.order = 0
  <1>1. \A i : EntryOf(t, i).order = IF ordered THEN t.sequence[i] ELSE 0
    BY DEF EntryOf
  <1> HIDE DEF EntryOf
  <1>2. \A e \in Entries(t) : \E i \in Full(t) : e = EntryOf(t, i)
    BY EntriesAre, Zenon
  <1>3. ordered => \A i \in Full(t) : t.sequence[i] < t.nextSequence
    BY Zenon DEF Well, Numbered
  <1> QED
    BY <1>1, <1>2, <1>3, Zenon

\* The slot a search ends in, and the entry there.
LEMMA SearchedIs ==
    ASSUME NEW t, Well(t), ordered \in BOOLEAN, NEW k \in Keys, NEW i, i = slotFor(t, k)
    PROVE  /\ Ends(t, k, i)
           /\ Holds(t, i) => /\ i \in Full(t) /\ t.keys[i].is = k
                             /\ EntryOf(t, i) \in Entries(t) /\ k \in KeysOf(Entries(t))
           /\ ~Holds(t, i) => t.states[i] # 1 /\ k \notin KeysOf(Entries(t))
  <1>1. Typed(t) /\ Found(t) /\ Room(t)
    BY DEF Well
  <1>2. \E e \in Slots(t) : t.states[e] = 0
    BY <1>1, RoomIs
  <1>3. Ends(t, k, i)
    BY <1>1, <1>2, SlotForIs
  <1>4. /\ i \in Slots(t)
        /\ t.states[i] = 1 => t.keys[i].is = k
        /\ t.states[i] # 1 => \A j \in Full(t) : t.keys[j].is # k
    BY <1>3, Zenon DEF Ends
  <1>5. Holds(t, i) <=> t.states[i] = 1
    <2>1. t.capacity \in Nat
      BY <1>1, TypedIs
    <2> QED
      BY <1>4, <2>1 DEF Holds, Slots
  <1>6. Full(t) = {j \in Slots(t) : t.states[j] = 1}
    BY <1>1, FullIs
  <1>7. \A j : EntryOf(t, j).key = t.keys[j]
    BY DEF EntryOf
  <1> HIDE DEF EntryOf
  <1>8. Entries(t) = {EntryOf(t, j) : j \in Full(t)}
    BY EntriesAre, Zenon
  <1>9. ASSUME t.states[i] = 1
        PROVE  /\ i \in Full(t) /\ t.keys[i].is = k
               /\ EntryOf(t, i) \in Entries(t) /\ k \in KeysOf(Entries(t))
    <2>1. i \in Full(t) /\ t.keys[i].is = k
      BY <1>4, <1>6, <1>9
    <2>2. EntryOf(t, i) \in Entries(t)
      BY <1>8, <2>1
    <2>3. EntryOf(t, i).key.is = k
      BY <1>7, <2>1
    <2> QED
      BY <2>1, <2>2, <2>3 DEF KeysOf
  <1>10. ASSUME t.states[i] # 1 PROVE k \notin KeysOf(Entries(t))
    <2>1. \A j \in Full(t) : EntryOf(t, j).key.is # k
      BY <1>4, <1>7, <1>10, Zenon
    <2> QED
      BY <1>8, <2>1, Zenon DEF KeysOf
  <1> QED
    BY <1>3, <1>5, <1>9, <1>10

Inserted(t, r, e) ==
    /\ Well(r) /\ Entries(r) = Entries(t) \cup {e}
    /\ r.length = Cardinality(Full(r)) /\ r.length = t.length + 1

\* Before and after the entry of a key that is not there is put into slot i.
Inserts(t, r, i, key, value, order) ==
    /\ Well(t) /\ t.length = Cardinality(Full(t)) /\ t.used + 1 < t.capacity
    /\ key \in Instances /\ value \in Payloads /\ value.of = key.is
    /\ Ends(t, key.is, i) /\ t.states[i] # 1 /\ order = t.nextSequence
    /\ Fills(t, r, i, key, value, order)
    /\ r.length = t.length + 1 /\ r.used = t.used + 1
    /\ r.nextSequence = IF ordered THEN order + 1 ELSE order

LEMMA InsertionKeeps ==
    ASSUME NEW t, NEW r, NEW i, NEW key, NEW value, NEW order, ordered \in BOOLEAN,
           Inserts(t, r, i, key, value, order)
    PROVE  Inserted(t, r, [key |-> key, value |-> value, order |-> IF ordered THEN order ELSE 0])
  <1>0. /\ Well(t) /\ t.length = Cardinality(Full(t)) /\ t.used + 1 < t.capacity
        /\ key \in Instances /\ value \in Payloads /\ value.of = key.is
        /\ Ends(t, key.is, i) /\ t.states[i] # 1 /\ order = t.nextSequence
        /\ Fills(t, r, i, key, value, order)
        /\ r.length = t.length + 1 /\ r.used = t.used + 1
        /\ r.nextSequence = IF ordered THEN order + 1 ELSE order
    BY Zenon DEF Inserts
  <1>1. Typed(t) /\ Kept(t) /\ Unique(t) /\ Found(t) /\ Numbered(t) /\ Room(t)
    BY <1>0 DEF Well
  <1>2. /\ t.capacity \in Nat \ {0} /\ t.length \in Nat /\ t.used \in Nat /\ order \in Nat
    BY <1>0, <1>1, TypedIs
  <1>3. ordered => order < r.nextSequence /\ \A j \in Full(t) : t.sequence[j] # order
    <2> SUFFICES ASSUME ordered
                 PROVE  order < r.nextSequence /\ \A j \in Full(t) : t.sequence[j] # order
      OBVIOUS
    <2>1. \A j \in Full(t) : t.sequence[j] < order
      BY <1>0, <1>1, Zenon DEF Numbered
    <2>2. \A j \in Full(t) : t.sequence[j] # order
      BY <1>0, <1>2, <2>1
    <2> QED
      BY <1>0, <1>2, <2>2
  <1>4. r.nextSequence >= t.nextSequence
    BY <1>0, <1>2
  <1>5. /\ Kept(r) /\ Unique(r) /\ Found(r) /\ Numbered(r)
        /\ Full(r) = Full(t) \cup {i} /\ i \notin Full(t)
        /\ NonEmpty(r) = NonEmpty(t) \cup {i}
        /\ Entries(r) = Entries(t) \cup
             {[key |-> key, value |-> value, order |-> IF ordered THEN order ELSE 0]}
    <2>1. Follows(t, r, order)
      BY <1>3, <1>4, Zenon DEF Follows
    <2>2. order \in Nat
      BY <1>0, <1>2
    <2>3. Gains(t, r, i, [key |-> key, value |-> value, order |-> IF ordered THEN order ELSE 0])
      BY <1>0, <1>1, <2>1, <2>2, FillKeeps
    <2> QED
      BY <2>3, Zenon DEF Gains
  <1>6. Typed(r) /\ r.capacity = t.capacity
    BY <1>0, Zenon DEF Fills
  <1>7. IsFiniteSet(Full(t)) /\ IsFiniteSet(NonEmpty(t)) /\ Cardinality(NonEmpty(t)) \in Nat
    BY <1>1, FullFinite
  <1>8. Cardinality(Full(r)) = Cardinality(Full(t)) + 1
    <2>1. Full(r) = Full(t) \cup {i} /\ i \notin Full(t)
      BY <1>5
    <2>2. Cardinality(Full(t) \cup {i}) =
            IF i \in Full(t) THEN Cardinality(Full(t)) ELSE Cardinality(Full(t)) + 1
      BY <1>7, FS_AddElement
    <2> QED
      BY <2>1, <2>2, Zenon
  <1>9. Cardinality(NonEmpty(r)) <= Cardinality(NonEmpty(t)) + 1
    <2>1. NonEmpty(r) = NonEmpty(t) \cup {i}
      BY <1>5
    <2>2. Cardinality(NonEmpty(t) \cup {i}) =
            IF i \in NonEmpty(t) THEN Cardinality(NonEmpty(t)) ELSE Cardinality(NonEmpty(t)) + 1
      BY <1>7, FS_AddElement
    <2> QED
      BY <1>7, <2>1, <2>2
  <1>10. Room(r)
    <2>1. Cardinality(NonEmpty(t)) <= t.used
      BY <1>1 DEF Room
    <2>2. Cardinality(NonEmpty(r)) \in Nat
      BY <1>6, FullFinite
    <2>3. Cardinality(NonEmpty(r)) <= r.used
      BY <1>0, <1>2, <1>7, <1>9, <2>1, <2>2
    <2> QED
      BY <1>0, <1>2, <1>6, <2>3 DEF Room
  <1> QED
    BY <1>0, <1>5, <1>6, <1>8, <1>10, Zenon DEF Well, Inserted

LEMMA InsertedIs ==
    ASSUME NEW t, Well(t), ordered \in BOOLEAN, t.length = Cardinality(Full(t)),
           t.used + 1 < t.capacity,
           NEW key \in Instances, NEW i, Ends(t, key.is, i), t.states[i] # 1,
           NEW value \in Payloads, value.of = key.is,
           NEW q, q = Filled(t, i, key, value, t.nextSequence),
           NEW r, r = [q EXCEPT !.length = @ + 1, !.used = @ + 1,
                                !.nextSequence = IF ordered THEN @ + 1 ELSE @]
    PROVE  Inserted(t, r, [key |-> key, value |-> value,
                           order |-> IF ordered THEN t.nextSequence ELSE 0])
  <1> DEFINE n == IF ordered THEN t.nextSequence + 1 ELSE t.nextSequence
  <1>1. Typed(t)
    BY DEF Well
  <1>2. t.length \in Nat /\ t.used \in Nat /\ t.nextSequence \in Nat
    BY <1>1, TypedIs
  <1>3. i \in Slots(t)
    BY DEF Ends
  <1>4. Fills(t, q, i, key, value, t.nextSequence) /\ q.length = t.length /\ q.used = t.used
        /\ q.nextSequence = t.nextSequence /\ q \in TableOf(t.capacity)
    BY <1>1, <1>2, <1>3, FilledIs
  <1>5. n \in Nat /\ t.length + 1 \in Nat /\ t.used + 1 \in Nat
    BY <1>2
  <1>6. r = [q EXCEPT !.length = t.length + 1, !.used = t.used + 1, !.nextSequence = n]
    BY <1>4 DEF TableOf
  <1> HIDE DEF n
  <1>7. Typed(q)
    BY <1>4, Zenon DEF Fills
  <1>8. Counts(q, r, t.length + 1, t.used + 1, n)
    BY <1>5, <1>6, <1>7, CountedIs
  <1>9. /\ Typed(r) /\ r.length = t.length + 1 /\ r.used = t.used + 1 /\ r.nextSequence = n
        /\ r.capacity = q.capacity /\ r.states = q.states
        /\ r.keys = q.keys /\ r.values = q.values /\ r.sequence = q.sequence
        /\ r.keyInitialized = q.keyInitialized /\ r.valueInitialized = q.valueInitialized
    BY <1>8, Zenon DEF Counts
  <1>10. Fills(t, r, i, key, value, t.nextSequence)
    BY <1>4, <1>9 DEF Fills
  <1> DEFINE order == t.nextSequence
  <1>11. Fills(t, r, i, key, value, order) /\ order = t.nextSequence
         /\ r.nextSequence = IF ordered THEN order + 1 ELSE order
    BY <1>9, <1>10 DEF n
  <1> HIDE DEF order
  <1>12. Inserted(t, r, [key |-> key, value |-> value, order |-> IF ordered THEN order ELSE 0])
    <2>1. r.length = t.length + 1 /\ r.used = t.used + 1
      BY <1>9
    <2>2. Inserts(t, r, i, key, value, order)
      BY <1>11, <2>1, Zenon DEF Inserts
    <2> QED
      BY <2>2, InsertionKeeps
  <1> QED
    BY <1>12, Zenon DEF order

-----------------------------------------------------------------------------
(* What the invariant says of the entries.                                     *)

LEMMA InvEntries ==
    ASSUME TableInv
    PROVE  /\ ordered \in BOOLEAN /\ Well(table) /\ Proper(Entries(table))
           /\ owned = OwnedBy(Entries(table))
           /\ IsFiniteSet(Entries(table))
           /\ table.length = Cardinality(Full(table))
           /\ table.length = Cardinality(Entries(table))
           /\ table.length = Cardinality(KeysOf(Entries(table)))
           /\ DOMAIN ValueOf(Entries(table)) = KeysOf(Entries(table))
           /\ table.length \in Nat
  <1>1. /\ ordered \in BOOLEAN /\ Well(table) /\ owned = Owns(table)
        /\ table.length = Cardinality(Full(table))
    BY DEF TableInv
  <1>2. Proper(Entries(table)) /\ owned = OwnedBy(Entries(table))
    BY <1>1, EntriesProper, OwnsAre
  <1>3. Typed(table) /\ Unique(table)
    BY <1>1 DEF Well
  <1>4. IsFiniteSet(Entries(table)) /\ Cardinality(Entries(table)) = Cardinality(Full(table))
    BY <1>3, EntriesCount
  <1>5. Cardinality(KeysOf(Entries(table))) = Cardinality(Entries(table))
    BY <1>2, <1>4, OwnedCount
  <1>6. DOMAIN ValueOf(Entries(table)) = KeysOf(Entries(table))
    BY <1>2, ValueOfIs
  <1>7. table.length \in Nat
    BY <1>3, TypedIs
  <1> QED
    BY <1>1, <1>2, <1>4, <1>5, <1>6, <1>7

\* The properties the runs check.
LEMMA InvSound == TableInv => TableSound
  <1> SUFFICES ASSUME TableInv PROVE TableSound
    OBVIOUS
  <1>1. Well(table) /\ owned = Owns(table) /\ (stage = "gone" => Full(table) = {})
    BY DEF TableInv
  <1>2. Typed(table) /\ Kept(table) /\ Room(table)
    BY <1>1 DEF Well
  <1>3. DOMAIN table.states = Slots(table)
    BY <1>2, TypedIs
  <1>4. SearchEnds
    <2>1. \E i \in Slots(table) : table.states[i] = 0
      BY <1>2, RoomIs
    <2>2. Cardinality(NonEmpty(table)) <= table.used
      BY <1>2 DEF Room
    <2>3. table.used \in Nat /\ Cardinality(NonEmpty(table)) \in Nat
      BY <1>2, TypedIs, FullFinite
    <2>4. table.used >= Cardinality(NonEmpty(table))
      BY <2>2, <2>3
    <2> QED
      BY <1>3, <2>1, <2>4, Zenon DEF SearchEnds, NonEmpty
  <1>5. Cardinality(owned) = 2 * Cardinality(Full(table))
    <2>1. /\ Proper(Entries(table)) /\ IsFiniteSet(Entries(table)) /\ owned = OwnedBy(Entries(table))
          /\ table.length = Cardinality(Full(table))
          /\ table.length = Cardinality(Entries(table))
      BY InvEntries
    <2>2. Cardinality(OwnedBy(Entries(table))) = 2 * Cardinality(Entries(table))
      BY <2>1, OwnedCount
    <2> QED
      BY <2>1, <2>2
  <1>6. \A i \in DOMAIN table.states : /\ (table.states[i] = 1) = table.keyInitialized[i]
                                       /\ (table.states[i] = 1) = table.valueInitialized[i]
    BY <1>2, <1>3, Zenon DEF Kept
  <1>7. stage = "gone" => owned = {}
    <2> SUFFICES ASSUME stage = "gone" PROVE owned = {}
      OBVIOUS
    <2>1. Entries(table) = {}
      BY <1>1 DEF Entries
    <2> QED
      BY <2>1, InvEntries, NothingView
  <1> QED
    BY <1>1, <1>4, <1>5, <1>6, <1>7, Zenon DEF TableSound, TableOwnsOnce

\* What a step of an open table has to show, and what a dictionary sees of it.
LEMMA OpenMove ==
    ASSUME TableInv, TableCall, Well(table'), table'.length = Cardinality(Full(table')),
           owned' = OwnedBy(Entries(table')), shown' \in [length : Nat, capacity : Nat],
           shown'.length = table'.length
    PROVE  TableInv'
  <1>1. owned' = Owns(table')
    BY OwnsAre
  <1> QED
    BY <1>1, OpenStep

LEMMA LaterView ==
    ASSUME ordered' = ordered
    PROVE  /\ ValueOf(Entries(table))' = ValueOf(Entries(table'))
           /\ Earlier(Entries(table))' = Earlier(Entries(table'))
  <1>1. Entries(table)' = Entries(table')
    BY LaterTable
  <1> QED
    BY <1>1

LEMMA ShowIs ==
    ASSUME NEW t, Typed(t), NEW s, s = Show(t)
    PROVE  s \in [length : Nat, capacity : Nat] /\ s.length = t.length
  <1>1. t.length \in Nat /\ t.capacity \in Nat
    BY TypedIs
  <1> QED
    BY <1>1 DEF Show

-----------------------------------------------------------------------------
(* Inserting.                                                                  *)

\* What an insertion of k and v leaves a dictionary with.
InsertView(S, R, k, v) ==
    /\ ValueOf(R) = [j \in KeysOf(S) \cup {k} |-> IF j = k THEN v ELSE ValueOf(S)[j]]
    /\ Earlier(R) = IF ordered /\ k \notin KeysOf(S) THEN Earlier(S) \cup (KeysOf(S) \X {k}) ELSE Earlier(S)

LEMMA InsertPromised ==
    ASSUME TableInv, ordered' = ordered, NEW k, NEW v,
           answer' = <<"insert", k \notin KeysOf(Entries(table))>>,
           InsertView(Entries(table), Entries(table'), k, v),
           shown'.length = IF k \in KeysOf(Entries(table)) THEN shown.length ELSE shown.length + 1
    PROVE  Promise!Insert(k, v)
  <1>1. DOMAIN ValueOf(Entries(table)) = KeysOf(Entries(table))
    BY InvEntries
  <1>2. /\ ValueOf(Entries(table))' = ValueOf(Entries(table'))
        /\ Earlier(Entries(table))' = Earlier(Entries(table'))
    BY LaterView
  <1>3. Promise!Present = KeysOf(Entries(table))
    BY <1>1, Zenon DEF Promise!Present
  <1>4. ValueOf(Entries(table))'
          = [j \in Promise!Present \cup {k} |-> IF j = k THEN v ELSE ValueOf(Entries(table))[j]]
    BY <1>2, <1>3, Zenon DEF InsertView
  <1>5. Earlier(Entries(table))'
          = IF ordered /\ k \notin Promise!Present
            THEN Earlier(Entries(table)) \cup (Promise!Present \X {k}) ELSE Earlier(Entries(table))
    BY <1>2, <1>3, Zenon DEF InsertView
  <1>6. answer' = <<"insert", k \notin Promise!Present>>
    BY <1>3
  <1>7. shown'.length = IF k \in Promise!Present THEN shown.length ELSE shown.length + 1
    BY <1>3
  <1> QED
    BY <1>4, <1>5, <1>6, <1>7, Zenon DEF Promise!Insert

\* A key that is there: the table may have grown first.
LEMMA InsertOld ==
    ASSUME TableInv, TableCall, NEW k \in Keys,
           NEW t, t = ensureInsertCapacity(table), NEW i, i = slotFor(t, k), Holds(t, i),
           NEW value, value = SpareValue(k), table' = [t EXCEPT !.values[i] = value],
           owned' = (owned \ {t.values[i]}) \cup {value}, answer' = <<"insert", FALSE>>,
           shown' = Show(table')
    PROVE  TableInv' /\ Promise!Insert(k, value) /\ value \in Payloads
  <1> DEFINE S == Entries(table)
             d == EntryOf(t, i)
             n == [key |-> t.keys[i], value |-> value, order |-> EntryOf(t, i).order]
             r == table'
  <1>1. /\ ordered \in BOOLEAN /\ Well(table) /\ Proper(S) /\ owned = OwnedBy(S)
        /\ table.length = Cardinality(Full(table)) /\ table.length = Cardinality(KeysOf(S))
    BY InvEntries
  <1>2. /\ Well(t) /\ t.length = table.length /\ Cardinality(Full(t)) = table.length
        /\ Entries(t) = S
    BY <1>1, EnsuredIs
  <1>3. /\ i \in Full(t) /\ t.keys[i].is = k /\ d \in S /\ k \in KeysOf(S)
    BY <1>1, <1>2, SearchedIs
  <1>4. value \in Payloads /\ value.of = k /\ value \notin owned
    BY <1>1, SpareIs
  <1>5. d.key = t.keys[i] /\ d.value = t.values[i]
    BY DEF EntryOf
  <1>6. n.key = d.key /\ n.order = d.order /\ n.value = value /\ d.key.is = k
    BY <1>3, <1>5
  <1>7. /\ Well(r) /\ r.length = t.length /\ Full(r) = Full(t)
        /\ Entries(r) = (Entries(t) \ {d}) \cup {n}
    BY <1>1, <1>2, <1>3, <1>4, ReplaceKeeps
  <1> HIDE DEF S, d, n, r
  <1>8. Entries(r) = (S \ {d}) \cup {n}
    BY <1>2, <1>7
  <1>9. Proper(Entries(r))
    BY <1>1, <1>7, EntriesProper
  <1>10. OwnedBy(Entries(r)) = (owned \ {d.value}) \cup {value}
    <2>1. n.value \notin OwnedBy(S)
      BY <1>1, <1>4, <1>6
    <2>2. OwnedBy((S \ {d}) \cup {n}) = (OwnedBy(S) \ {d.value}) \cup {n.value}
      BY <1>1, <1>3, <1>6, <2>1, OwnedReplaced
    <2> QED
      BY <1>1, <1>6, <1>8, <2>2
  <1>11. shown' \in [length : Nat, capacity : Nat] /\ shown'.length = r.length
    BY <1>7, ShowIs DEF Well, r
  <1>12. TableInv'
    <2>1. /\ Well(table') /\ table'.length = Cardinality(Full(table'))
          /\ owned' = OwnedBy(Entries(table'))
      BY <1>2, <1>5, <1>7, <1>10 DEF r
    <2> QED
      BY <1>11, <2>1, OpenMove DEF r
  <1>13. InsertView(S, Entries(r), k, value)
    <2>1. /\ ValueOf(Entries(r)) = [j \in KeysOf(S) |-> IF j = d.key.is THEN n.value ELSE ValueOf(S)[j]]
          /\ Earlier(Entries(r)) = Earlier(S)
      BY <1>1, <1>3, <1>6, <1>8, <1>9, ReplacedView
    <2>2. KeysOf(S) \cup {k} = KeysOf(S)
      BY <1>3
    <2> QED
      BY <1>3, <1>6, <2>1, <2>2, Zenon DEF InsertView
  <1>14. shown'.length = IF k \in KeysOf(S) THEN shown.length ELSE shown.length + 1
    BY <1>2, <1>3, <1>7, <1>11 DEF TableInv, TableCall
  <1>15. ordered' = ordered
    BY DEF TableCall
  <1>16. answer' = <<"insert", k \notin KeysOf(S)>>
    BY <1>3
  <1>17. Promise!Insert(k, value)
    BY <1>13, <1>14, <1>15, <1>16, InsertPromised DEF S, r
  <1> QED
    BY <1>4, <1>12, <1>17

\* A key that is not there.
LEMMA InsertNew ==
    ASSUME TableInv, TableCall, NEW k \in Keys,
           NEW t, t = ensureInsertCapacity(table), NEW i, i = slotFor(t, k), ~Holds(t, i),
           NEW key, key = Spare(k), NEW value, value = SpareValue(k),
           NEW q, q = Filled(t, i, key, value, t.nextSequence),
           table' = [q EXCEPT !.length = @ + 1, !.used = @ + 1,
                              !.nextSequence = IF ordered THEN @ + 1 ELSE @],
           owned' = owned \cup {key, value}, answer' = <<"insert", TRUE>>,
           shown' = Show(table')
    PROVE  TableInv' /\ Promise!Insert(k, value) /\ value \in Payloads
  <1> DEFINE S == Entries(table)
             n == [key |-> key, value |-> value, order |-> IF ordered THEN t.nextSequence ELSE 0]
             r == table'
  <1>1. /\ ordered \in BOOLEAN /\ Well(table) /\ Proper(S) /\ owned = OwnedBy(S)
        /\ table.length = Cardinality(Full(table)) /\ table.length = Cardinality(KeysOf(S))
        /\ table.length \in Nat /\ IsFiniteSet(S)
    BY InvEntries
  <1>2. /\ Well(t) /\ t.length = table.length /\ Cardinality(Full(t)) = table.length
        /\ Entries(t) = S /\ t.used + 1 < t.capacity
    BY <1>1, EnsuredIs
  <1>3. Ends(t, k, i) /\ t.states[i] # 1 /\ k \notin KeysOf(S)
    BY <1>1, <1>2, SearchedIs
  <1>4. /\ value \in Payloads /\ value.of = k /\ value \notin owned
        /\ key \in Instances /\ key.is = k /\ key \notin owned
    BY <1>1, SpareIs
  <1>5. n.key = key /\ n.value = value /\ n.order = IF ordered THEN t.nextSequence ELSE 0
    OBVIOUS
  <1>6. Inserted(t, r, n)
    <2>1. r = [q EXCEPT !.length = @ + 1, !.used = @ + 1, !.nextSequence = IF ordered THEN @ + 1 ELSE @]
      BY Zenon
    <2>2. value.of = key.is /\ Ends(t, key.is, i) /\ t.length = Cardinality(Full(t))
      BY <1>2, <1>3, <1>4
    <2> HIDE DEF r
    <2>3. Inserted(t, r, [key |-> key, value |-> value, order |-> IF ordered THEN t.nextSequence ELSE 0])
      BY <1>1, <1>2, <1>3, <1>4, <2>1, <2>2, InsertedIs
    <2> QED
      BY <2>3
  <1> HIDE DEF S, n, r
  <1>7. Well(r) /\ r.length = Cardinality(Full(r)) /\ Entries(r) = S \cup {n}
    BY <1>2, <1>6 DEF Inserted
  <1>8. Proper(Entries(r))
    BY <1>1, <1>7, EntriesProper
  <1>9. OwnedBy(Entries(r)) = owned \cup {key, value}
    <2>1. OwnedBy(S \cup {n}) = OwnedBy(S) \cup {n.key, n.value}
      BY OwnedMore
    <2> QED
      BY <1>1, <1>5, <1>7, <2>1
  <1>10. shown' \in [length : Nat, capacity : Nat] /\ shown'.length = r.length
    <2>1. Typed(r)
      BY <1>7 DEF Well
    <2>2. shown' = Show(r)
      BY DEF r
    <2> QED
      BY <2>1, <2>2, ShowIs
  <1>11. TableInv'
    <2>1. /\ Well(table') /\ table'.length = Cardinality(Full(table'))
          /\ owned' = OwnedBy(Entries(table'))
      BY <1>7, <1>9 DEF r
    <2> QED
      BY <1>10, <2>1, OpenMove DEF r
  <1>12. Adds(S, Entries(r), k, n.value)
    <2>1. ordered => \A e \in S : e.order < n.order
      BY <1>1, <1>2, <1>5, OrdersAre, Zenon
    <2>2. ~ordered => \A e \in S \cup {n} : e.order = 0
      BY <1>1, <1>2, <1>5, OrdersAre
    <2>3. n.key.is \notin KeysOf(S) /\ k = n.key.is
      BY <1>3, <1>4, <1>5
    <2> QED
      BY <1>1, <1>7, <1>8, <2>1, <2>2, <2>3, AddedView
  <1>13. InsertView(S, Entries(r), k, value)
    BY <1>3, <1>5, <1>12, Zenon DEF InsertView, Adds
  <1>14. shown'.length = IF k \in KeysOf(S) THEN shown.length ELSE shown.length + 1
    <2>1. shown.length = table.length
      BY DEF TableInv, TableCall
    <2>2. r.length = t.length + 1
      BY <1>6 DEF Inserted
    <2> QED
      BY <1>2, <1>3, <1>10, <2>1, <2>2
  <1>15. ordered' = ordered
    BY DEF TableCall
  <1>16. answer' = <<"insert", k \notin KeysOf(S)>>
    BY <1>3
  <1>17. Promise!Insert(k, value)
    BY <1>13, <1>14, <1>15, <1>16, InsertPromised DEF S, r
  <1> QED
    BY <1>4, <1>11, <1>17

LEMMA InsertStep ==
    ASSUME TableInv, insertPrehashed
    PROVE  TableInv' /\ Promise!Next
  <1>1. PICK k \in Keys :
          LET t == ensureInsertCapacity(table)
              i == slotFor(t, k)
              key == Spare(k)
              value == SpareValue(k)
          IN  IF Holds(t, i)
              THEN /\ table' = [t EXCEPT !.values[i] = value]
                   /\ owned' = (owned \ {t.values[i]}) \cup {value}
                   /\ answer' = <<"insert", FALSE>>
              ELSE /\ table' = [Filled(t, i, key, value, t.nextSequence)
                                  EXCEPT !.length = @ + 1, !.used = @ + 1,
                                         !.nextSequence = IF ordered THEN @ + 1 ELSE @]
                   /\ owned' = owned \cup {key, value}
                   /\ answer' = <<"insert", TRUE>>
    BY Zenon DEF insertPrehashed
  <1>2. TableCall /\ shown' = Show(table')
    BY Zenon DEF insertPrehashed
  <1> DEFINE t == ensureInsertCapacity(table)
             i == slotFor(t, k)
             value == SpareValue(k)
             q == Filled(t, i, Spare(k), value, t.nextSequence)
  <1>3. ordered' = ordered
    BY <1>2 DEF TableCall
  <1>4. TableInv' /\ Promise!Insert(k, value) /\ value \in Payloads
    <2>1. CASE Holds(t, i)
      BY <1>1, <1>2, <2>1, InsertOld, Zenon
    <2>2. CASE ~Holds(t, i)
      <3>1. /\ table' = [q EXCEPT !.length = @ + 1, !.used = @ + 1,
                                  !.nextSequence = IF ordered THEN @ + 1 ELSE @]
            /\ owned' = owned \cup {Spare(k), value}
            /\ answer' = <<"insert", TRUE>>
        BY <1>1, <2>2, Zenon
      <3> QED
        BY <1>2, <2>2, <3>1, InsertNew, Zenon
    <2> QED
      BY <2>1, <2>2
  <1> QED
    BY <1>3, <1>4, Zenon DEF Promise!Next

-----------------------------------------------------------------------------
(* Finding, removing.                                                          *)

LEMMA FindStep ==
    ASSUME TableInv, getPrehashed
    PROVE  TableInv' /\ Promise!Next
  <1> DEFINE S == Entries(table)
             f == [k \in Keys |-> LET i == slotFor(table, k)
                                  IN  IF Holds(table, i) THEN table.values[i] ELSE Undefined]
             g == [k \in Keys |-> IF k \in Promise!Present THEN ValueOf(S)[k] ELSE Undefined]
  <1>1. TableCall /\ answer' = <<"find", f>> /\ UNCHANGED <<table, shown, owned>>
    BY Zenon DEF getPrehashed
  <1>2. ordered' = ordered /\ stage' = stage /\ position' = position
    BY <1>1 DEF TableCall
  <1>3. ordered \in BOOLEAN /\ Well(table) /\ Proper(S) /\ DOMAIN ValueOf(S) = KeysOf(S)
    BY InvEntries
  <1>4. Promise!Present = KeysOf(S)
    BY <1>3, Zenon DEF Promise!Present
  <1>5. ASSUME NEW k \in Keys
        PROVE  (LET i == slotFor(table, k)
                IN  IF Holds(table, i) THEN table.values[i] ELSE Undefined)
                 = (IF k \in Promise!Present THEN ValueOf(S)[k] ELSE Undefined)
    <2> DEFINE i == slotFor(table, k)
               e == EntryOf(table, i)
    <2>1. /\ Holds(table, i) => /\ table.keys[i].is = k /\ e \in S /\ k \in KeysOf(S)
          /\ ~Holds(table, i) => k \notin KeysOf(S)
      BY <1>3, SearchedIs, Zenon
    <2>2. e.key = table.keys[i] /\ e.value = table.values[i]
      BY DEF EntryOf
    <2> HIDE DEF e, i, S
    <2>3. e \in S => ValueOf(S)[e.key.is] = e.value
      BY <1>3, ValueOfIs
    <2>4. Holds(table, i) => ValueOf(S)[k] = table.values[i]
      BY <2>1, <2>2, <2>3
    <2> QED
      BY <1>4, <2>1, <2>4, Zenon DEF i
  <1>6. f = g
    BY <1>5, Zenon
  <1>7. TableInv'
    <2>1. /\ Well(table') /\ table'.length = Cardinality(Full(table'))
          /\ owned' = OwnedBy(Entries(table')) /\ shown' \in [length : Nat, capacity : Nat]
          /\ shown'.length = table'.length
      BY <1>1, InvEntries DEF TableInv, TableCall
    <2> QED
      BY <1>1, <2>1, OpenMove
  <1>8. ValueOf(S)' = ValueOf(S) /\ Earlier(S)' = Earlier(S)
    <2>1. ValueOf(S)' = ValueOf(Entries(table')) /\ Earlier(S)' = Earlier(Entries(table'))
      BY <1>2, LaterView
    <2> QED
      BY <1>1, <2>1, Zenon
  <1>9. Promise!Find
    BY <1>1, <1>6, <1>8, Zenon DEF Promise!Find
  <1> QED
    BY <1>2, <1>7, <1>9, Zenon DEF Promise!Next

\* What a removal of k leaves a dictionary with.
RemoveView(S, R, k) ==
    /\ ValueOf(R) = [j \in KeysOf(S) \ {k} |-> ValueOf(S)[j]]
    /\ Earlier(R) = {p \in Earlier(S) : p[1] # k /\ p[2] # k}

LEMMA RemovedPromised ==
    ASSUME TableInv, ordered' = ordered, NEW k, RemoveView(Entries(table), Entries(table'), k)
    PROVE  Promise!Removed(k) /\ Promise!Present = KeysOf(Entries(table))
  <1>1. DOMAIN ValueOf(Entries(table)) = KeysOf(Entries(table))
    BY InvEntries
  <1>2. /\ ValueOf(Entries(table))' = ValueOf(Entries(table'))
        /\ Earlier(Entries(table))' = Earlier(Entries(table'))
    BY LaterView
  <1>3. Promise!Present = KeysOf(Entries(table))
    BY <1>1, Zenon DEF Promise!Present
  <1>4. ValueOf(Entries(table))' = [j \in Promise!Present \ {k} |-> ValueOf(Entries(table))[j]]
    BY <1>2, <1>3, Zenon DEF RemoveView
  <1>5. Earlier(Entries(table))' = {p \in Earlier(Entries(table)) : p[1] # k /\ p[2] # k}
    BY <1>2, Zenon DEF RemoveView
  <1> QED
    BY <1>3, <1>4, <1>5, Zenon DEF Promise!Removed

\* A full slot vacated: what is left, and who owns it.
LEMMA VacateView ==
    ASSUME TableInv, NEW i \in Full(table), NEW r, r = Vacated(table, i)
    PROVE  /\ Well(r) /\ r.length = Cardinality(Full(r)) /\ r.length = table.length - 1
           /\ OwnedBy(Entries(r)) = owned \ {table.keys[i], table.values[i]}
           /\ RemoveView(Entries(table), Entries(r), table.keys[i].is)
           /\ table.keys[i].is \in KeysOf(Entries(table))
           /\ ValueOf(Entries(table))[table.keys[i].is] = table.values[i]
           /\ Full(r) = Full(table) \ {i}
           /\ \A j \in Full(r) : r.sequence[j] = table.sequence[j]
  <1> DEFINE S == Entries(table)
             d == EntryOf(table, i)
             k == table.keys[i].is
  <1>1. /\ ordered \in BOOLEAN /\ Well(table) /\ Proper(S) /\ owned = OwnedBy(S)
        /\ table.length = Cardinality(Full(table))
    BY InvEntries
  <1>2. Typed(table)
    BY <1>1 DEF Well
  <1>3. IsFiniteSet(Full(table)) /\ Cardinality(Full(table)) \in Nat
    BY <1>2, FullFinite
  <1>4. Cardinality(Full(table) \ {i}) = Cardinality(Full(table)) - 1
    BY <1>3, FS_RemoveElement
  <1>5. table.length \in Nat \ {0}
    BY <1>1, <1>3, FS_EmptySet
  <1>6. /\ Well(r) /\ Full(r) = Full(table) \ {i} /\ Entries(r) = S \ {d}
        /\ \A j \in Full(r) : r.sequence[j] = table.sequence[j]
    BY <1>1, <1>5, VacateKeeps
  <1>7. r.length = table.length - 1
    <2>1. i \in Slots(table)
      BY <1>2, TypedIs
    <2>2. Vacates(table, r, i)
      BY <1>2, <1>5, <2>1, VacatedIs
    <2> QED
      BY <2>2, Zenon DEF Vacates
  <1>8. d.key = table.keys[i] /\ d.value = table.values[i]
    BY DEF EntryOf
  <1>9. d \in S
    BY EntriesAre
  <1> HIDE DEF d, S
  <1>10. OwnedBy(Entries(r)) = owned \ {table.keys[i], table.values[i]}
    BY <1>1, <1>6, <1>8, <1>9, OwnedLess
  <1>11. d.key.is = k
    BY <1>8
  <1>12. k \in KeysOf(S) /\ ValueOf(S)[k] = table.values[i]
    <2>1. ValueOf(S)[d.key.is] = d.value
      BY <1>1, <1>9, ValueOfIs
    <2> QED
      BY <1>8, <1>9, <2>1 DEF KeysOf
  <1>13. RemoveView(S, Entries(r), k)
    BY <1>1, <1>6, <1>9, <1>11, RemovedView, SMTT(30) DEF RemoveView
  <1> QED
    BY <1>1, <1>4, <1>6, <1>7, <1>10, <1>12, <1>13 DEF S

LEMMA RemoveStep ==
    ASSUME TableInv, remove
    PROVE  TableInv' /\ Promise!Next
  <1> DEFINE S == Entries(table)
  <1>1. PICK k \in Keys :
          LET i == slotFor(table, k)
          IN  IF Holds(table, i)
              THEN /\ table' = Vacated(table, i)
                   /\ owned' = owned \ {table.keys[i], table.values[i]}
                   /\ answer' = <<"remove", k, table.values[i]>>
              ELSE /\ answer' = <<"remove", k, Undefined>>
                   /\ UNCHANGED <<table, owned>>
    BY Zenon DEF remove
  <1> DEFINE i == slotFor(table, k)
  <1>2. TableCall /\ shown' = [shown EXCEPT !.length = table'.length]
    BY Zenon DEF remove
  <1>3. ordered' = ordered /\ shown.length = table.length /\ shown \in [length : Nat, capacity : Nat]
    BY <1>2 DEF TableInv, TableCall
  <1>4. /\ ordered \in BOOLEAN /\ Well(table) /\ Proper(S) /\ owned = OwnedBy(S)
        /\ table.length = Cardinality(Full(table)) /\ table.length \in Nat
    BY InvEntries
  <1>5. /\ Holds(table, i) => i \in Full(table) /\ table.keys[i].is = k
        /\ ~Holds(table, i) => k \notin KeysOf(S)
    BY <1>4, SearchedIs, Zenon
  <1>6. CASE Holds(table, i)
    <2>1. /\ table' = Vacated(table, i) /\ answer' = <<"remove", k, table.values[i]>>
          /\ owned' = owned \ {table.keys[i], table.values[i]}
      BY <1>1, <1>6, Zenon
    <2>2. /\ Well(table') /\ table'.length = Cardinality(Full(table')) /\ table'.length = table.length - 1
          /\ OwnedBy(Entries(table')) = owned \ {table.keys[i], table.values[i]}
          /\ RemoveView(S, Entries(table'), k) /\ k \in KeysOf(S) /\ ValueOf(S)[k] = table.values[i]
      BY <1>5, <1>6, <2>1, VacateView
    <2> HIDE DEF i
    <2>3. table'.length \in Nat
      BY <2>2, TypedIs DEF Well
    <2>4. shown' \in [length : Nat, capacity : Nat] /\ shown'.length = table'.length
      BY <1>2, <1>3, <2>3
    <2>5. TableInv'
      BY <1>2, <2>1, <2>2, <2>4, OpenMove
    <2>6. Promise!Removed(k) /\ Promise!Present = KeysOf(S)
      BY <1>3, <2>2, RemovedPromised
    <2>7. answer' = <<"remove", k, IF k \in Promise!Present THEN ValueOf(S)[k] ELSE Undefined>>
      BY <2>1, <2>2, <2>6
    <2>8. shown'.length = IF k \in Promise!Present THEN shown.length - 1 ELSE shown.length
      BY <1>3, <2>2, <2>4, <2>6
    <2>9. Promise!Remove(k)
      BY <2>6, <2>7, <2>8, Zenon DEF Promise!Remove
    <2> QED
      BY <1>3, <2>5, <2>9, Zenon DEF Promise!Next
  <1>7. CASE ~Holds(table, i)
    <2>1. answer' = <<"remove", k, Undefined>> /\ table' = table /\ owned' = owned
      BY <1>1, <1>7, Zenon
    <2>2. k \notin KeysOf(S)
      BY <1>5, <1>7
    <2>3. shown' \in [length : Nat, capacity : Nat] /\ shown'.length = table'.length
      BY <1>2, <1>3, <1>4, <2>1
    <2>4. TableInv'
      BY <1>2, <1>4, <2>1, <2>3, OpenMove
    <2>5. RemoveView(S, Entries(table'), k)
      <3>1. KeysOf(S) \ {k} = KeysOf(S)
        BY <2>2
      <3>2. ValueOf(S) = [j \in KeysOf(S) \ {k} |-> ValueOf(S)[j]]
        BY <1>4, <3>1, ValueOfIs
      <3>3. \A p \in Earlier(S) : p[1] # k /\ p[2] # k
        <4> SUFFICES ASSUME NEW p \in Earlier(S) PROVE p[1] # k /\ p[2] # k
          OBVIOUS
        <4>1. PICK d, e \in S : p = <<d.key.is, e.key.is>>
          BY DEF Earlier
        <4>2. d.key.is \in KeysOf(S) /\ e.key.is \in KeysOf(S)
          BY DEF KeysOf
        <4> QED
          BY <2>2, <4>1, <4>2
      <3>4. Earlier(S) = {p \in Earlier(S) : p[1] # k /\ p[2] # k}
        BY <3>3
      <3> QED
        BY <2>1, <3>2, <3>4, Zenon DEF RemoveView
    <2>6. Promise!Removed(k) /\ Promise!Present = KeysOf(S)
      BY <1>3, <2>5, RemovedPromised
    <2>7. answer' = <<"remove", k, IF k \in Promise!Present THEN ValueOf(S)[k] ELSE Undefined>>
      BY <2>1, <2>2, <2>6
    <2>8. shown'.length = IF k \in Promise!Present THEN shown.length - 1 ELSE shown.length
      BY <1>3, <2>1, <2>2, <2>3, <2>6
    <2>9. Promise!Remove(k)
      BY <2>6, <2>7, <2>8, Zenon DEF Promise!Remove
    <2> QED
      BY <1>3, <2>4, <2>9, Zenon DEF Promise!Next
  <1> QED
    BY <1>6, <1>7

-----------------------------------------------------------------------------
(* Clearing, resizing, iterating.                                              *)

\* What a step that does not leave the table open has to show.
LEMMA ClosedMove ==
    ASSUME ordered \in BOOLEAN, ordered' = ordered, Well(table'),
           table'.length = Cardinality(Full(table')), owned' = OwnedBy(Entries(table')),
           shown' \in [length : Nat, capacity : Nat], stage' \in {"iterating", "gone"},
           stage' = "gone" => Full(table') = {}, position' \in Nat,
           \A i \in Full(table') : position' <= IF ordered THEN table'.sequence[i] ELSE i
    PROVE  TableInv'
  <1>1. Well(table)' /\ Full(table)' = Full(table') /\ Owns(table)' = Owns(table')
    BY LaterTable
  <1>2. owned' = Owns(table')
    BY OwnsAre
  <1>3. Ahead'
    BY <1>1, Zenon DEF Ahead
  <1>4. stage' # "open"
    OBVIOUS
  <1> QED
    BY <1>1, <1>2, <1>3, <1>4 DEF TableInv

\* What a step shows that keeps the entries.
LEMMA SameView ==
    ASSUME ordered' = ordered, Entries(table') = Entries(table)
    PROVE  /\ ValueOf(Entries(table))' = ValueOf(Entries(table))
           /\ Earlier(Entries(table))' = Earlier(Entries(table))
  BY LaterView, Zenon

LEMMA EmptiedIs ==
    ASSUME TableInv, ordered' = ordered, table' = Empty(table.capacity),
           owned' = owned \ Owns(table)
    PROVE  /\ Well(table') /\ table'.length = 0 /\ table'.length = Cardinality(Full(table'))
           /\ Full(table') = {} /\ owned' = OwnedBy(Entries(table'))
           /\ ValueOf(Entries(table))' = Promise!Nothing /\ Earlier(Entries(table))' = {}
  <1>1. Well(table) /\ owned = Owns(table)
    BY DEF TableInv
  <1>2. table.capacity \in Nat \ {0}
    BY <1>1, TypedIs DEF Well
  <1>3. Well(table') /\ table'.length = 0 /\ Full(table') = {} /\ Entries(table') = {}
    BY <1>2, EmptyIs
  <1>4. Cardinality(Full(table')) = 0
    BY <1>3, FS_EmptySet
  <1>5. /\ ValueOf({}) = [k \in {} |-> Undefined] /\ Earlier({}) = {} /\ OwnedBy({}) = {}
    BY NothingView
  <1>6. owned' = {}
    BY <1>1
  <1>7. /\ ValueOf(Entries(table))' = ValueOf({}) /\ Earlier(Entries(table))' = Earlier({})
    BY <1>3, LaterView, Zenon
  <1>8. ValueOf(Entries(table))' = Promise!Nothing
    BY <1>5, <1>7, Zenon DEF Promise!Nothing
  <1> QED
    BY <1>3, <1>4, <1>5, <1>6, <1>7, <1>8

LEMMA ClearStep ==
    ASSUME TableInv, clear
    PROVE  TableInv' /\ Promise!Next
  <1>1. /\ TableCall /\ table' = Empty(table.capacity) /\ owned' = owned \ Owns(table)
        /\ shown' = [shown EXCEPT !.length = 0] /\ answer' = <<"clear">>
    BY Zenon DEF clear
  <1>2. ordered' = ordered /\ shown \in [length : Nat, capacity : Nat]
    BY <1>1 DEF TableCall, TableInv
  <1>3. /\ Well(table') /\ table'.length = 0 /\ table'.length = Cardinality(Full(table'))
        /\ owned' = OwnedBy(Entries(table'))
        /\ ValueOf(Entries(table))' = Promise!Nothing /\ Earlier(Entries(table))' = {}
    BY <1>1, <1>2, EmptiedIs
  <1>4. shown' \in [length : Nat, capacity : Nat] /\ shown'.length = 0
    BY <1>1, <1>2
  <1>5. TableInv'
    BY <1>1, <1>3, <1>4, OpenMove
  <1>6. shown'.length \in {0, shown.length}
    BY <1>4
  <1>7. Promise!Clear
    BY <1>1, <1>3, <1>6, Zenon DEF Promise!Clear
  <1> QED
    BY <1>2, <1>5, <1>7, Zenon DEF Promise!Next

LEMMA DisposeStep ==
    ASSUME TableInv, dispose
    PROVE  TableInv' /\ Promise!Next
  <1>1. /\ table' = Empty(table.capacity) /\ owned' = owned \ Owns(table)
        /\ stage' = "gone" /\ answer' = <<"clear">>
        /\ ordered' = ordered /\ shown' = shown /\ position' = position
    BY Zenon DEF dispose
  <1>2. /\ ordered \in BOOLEAN /\ shown \in [length : Nat, capacity : Nat] /\ position \in Nat
    BY DEF TableInv
  <1>3. /\ Well(table') /\ Full(table') = {} /\ table'.length = Cardinality(Full(table'))
        /\ owned' = OwnedBy(Entries(table'))
        /\ ValueOf(Entries(table))' = Promise!Nothing /\ Earlier(Entries(table))' = {}
    BY <1>1, EmptiedIs
  <1>4. TableInv'
    BY <1>1, <1>2, <1>3, ClosedMove
  <1>5. shown'.length \in {0, shown.length}
    BY <1>1
  <1>6. Promise!Clear
    BY <1>1, <1>3, <1>5, Zenon DEF Promise!Clear
  <1> QED
    BY <1>1, <1>4, <1>6, Zenon DEF Promise!Next

\* A table that keeps its entries and its length, and may have another capacity.
LEMMA ResizedStep ==
    ASSUME TableInv, TableCall, Well(table'), table'.length = Cardinality(Full(table')),
           table'.length = table.length, Entries(table') = Entries(table),
           shown' = [shown EXCEPT !.capacity = table'.capacity], owned' = owned,
           answer' = <<"resize">>
    PROVE  TableInv' /\ Promise!Next
  <1>1. /\ ordered' = ordered /\ shown \in [length : Nat, capacity : Nat]
        /\ shown.length = table.length
    BY DEF TableCall, TableInv
  <1>2. table'.capacity \in Nat
    BY TypedIs DEF Well
  <1>3. shown' \in [length : Nat, capacity : Nat] /\ shown'.length = shown.length
    BY <1>1, <1>2
  <1>4. owned' = OwnedBy(Entries(table'))
    BY InvEntries
  <1>5. TableInv'
    BY <1>1, <1>3, <1>4, OpenMove
  <1>6. /\ ValueOf(Entries(table))' = ValueOf(Entries(table))
        /\ Earlier(Entries(table))' = Earlier(Entries(table))
    BY <1>1, SameView
  <1>7. Promise!Resize
    BY <1>3, <1>6, Zenon DEF Promise!Resize
  <1> QED
    BY <1>1, <1>5, <1>7, Zenon DEF Promise!Next

\* There are fewer entries than slots.
LEMMA LengthIs ==
    ASSUME TableInv
    PROVE  /\ table.capacity \in Nat \ {0} /\ table.length \in Nat
           /\ table.length < table.capacity
  <1>1. Typed(table) /\ Room(table) /\ table.length = Cardinality(Full(table))
    BY DEF TableInv, Well
  <1>2. table.capacity \in Nat \ {0} /\ table.used \in Nat /\ table.length \in Nat
    BY <1>1, TypedIs
  <1>3. /\ Cardinality(Full(table)) <= Cardinality(NonEmpty(table))
        /\ Cardinality(NonEmpty(table)) \in Nat
    BY <1>1, FullFinite
  <1>4. Cardinality(NonEmpty(table)) <= table.used /\ table.used < table.capacity
    BY <1>1, Zenon DEF Room
  <1> QED
    BY <1>1, <1>2, <1>3, <1>4

LEMMA ReserveStep ==
    ASSUME TableInv, reserve
    PROVE  TableInv' /\ Promise!Next
  <1>1. /\ TableCall /\ shown' = [shown EXCEPT !.capacity = table'.capacity]
        /\ answer' = <<"resize">> /\ owned' = owned
    BY Zenon DEF reserve
  <1>2. PICK n \in TableCapacities :
          table' = IF n <= table.capacity THEN table ELSE resize(table, Doubled(table.capacity, n))
    BY Zenon DEF reserve
  <1>3. /\ ordered \in BOOLEAN /\ Well(table) /\ table.length = Cardinality(Full(table))
    BY InvEntries
  <1>4. n \in Nat
    BY TypedTableConstants
  <1>5. CASE n <= table.capacity
    <2>1. table' = table
      BY <1>2, <1>5, Zenon
    <2> QED
      BY <1>1, <1>3, <2>1, ResizedStep
  <1>6. CASE ~(n <= table.capacity)
    <2> DEFINE d == Doubled(table.capacity, n)
    <2>1. table' = resize(table, d)
      BY <1>2, <1>6, Zenon
    <2>2. table.capacity \in Nat \ {0} /\ table.length \in Nat /\ table.length < table.capacity
      BY LengthIs
    <2>3. table.capacity < n
      BY <1>4, <1>6, <2>2
    <2>4. d \in Nat /\ d >= n
      BY <1>4, <2>2, <2>3, DoubledIs
    <2> HIDE DEF d
    <2>5. d \in Nat \ {0} /\ table.length < d
      BY <1>4, <2>2, <2>3, <2>4
    <2>6. /\ Well(table') /\ table'.length = table.length
          /\ Cardinality(Full(table')) = table.length /\ Entries(table') = Entries(table)
      BY <1>3, <2>1, <2>5, ResizeIs
    <2>7. table'.length = Cardinality(Full(table'))
      BY <2>6
    <2> QED
      BY <1>1, <2>6, <2>7, ResizedStep
  <1> QED
    BY <1>5, <1>6

LEMMA ShrinkStep ==
    ASSUME TableInv, shrinkToFit
    PROVE  TableInv' /\ Promise!Next
  <1> DEFINE target == Max({table.length * 2, 8})
  <1>1. /\ TableCall /\ shown' = [shown EXCEPT !.capacity = table'.capacity]
        /\ answer' = <<"resize">> /\ owned' = owned
        /\ table' = IF target < table.capacity THEN resize(table, target) ELSE table
    BY Zenon DEF shrinkToFit
  <1>2. /\ ordered \in BOOLEAN /\ Well(table) /\ table.length = Cardinality(Full(table))
    BY InvEntries
  <1>3. table.length \in Nat
    BY LengthIs
  <1>4. target \in Nat \ {0} /\ table.length < target
    <2>1. table.length * 2 \in Nat /\ 8 \in Nat
      BY <1>3
    <2>2. target = IF table.length * 2 >= 8 THEN table.length * 2 ELSE 8
      BY <2>1, MaxIs
    <2> HIDE DEF target
    <2> QED
      BY <1>3, <2>2
  <1> HIDE DEF target
  <1>5. CASE target < table.capacity
    <2>1. table' = resize(table, target)
      BY <1>1, <1>5, Zenon
    <2>2. /\ Well(table') /\ table'.length = table.length
          /\ Cardinality(Full(table')) = table.length /\ Entries(table') = Entries(table)
      BY <1>2, <1>4, <2>1, ResizeIs
    <2>3. table'.length = Cardinality(Full(table'))
      BY <2>2
    <2> QED
      BY <1>1, <2>2, <2>3, ResizedStep
  <1>6. CASE ~(target < table.capacity)
    <2>1. table' = table
      BY <1>1, <1>6, Zenon
    <2> QED
      BY <1>1, <1>2, <2>1, ResizedStep
  <1> QED
    BY <1>5, <1>6

\* What a dictionary sees of a step that changes neither the entries nor an answer.
LEMMA Unseen ==
    ASSUME ordered' = ordered, table' = table, shown' = shown, answer' = answer
    PROVE  UNCHANGED Promise!dvars
  <1>1. /\ ValueOf(Entries(table))' = ValueOf(Entries(table))
        /\ Earlier(Entries(table))' = Earlier(Entries(table))
    BY SameView, Zenon
  <1> QED
    BY <1>1, Zenon DEF Promise!dvars

LEMMA IterateStep ==
    ASSUME TableInv, intoIterator
    PROVE  TableInv' /\ UNCHANGED Promise!dvars
  <1>1. /\ stage = "open" /\ stage' = "iterating" /\ ordered' = ordered /\ table' = table
        /\ shown' = shown /\ position' = position /\ owned' = owned /\ answer' = answer
    BY Zenon DEF intoIterator
  <1>2. /\ ordered \in BOOLEAN /\ Well(table) /\ table.length = Cardinality(Full(table))
        /\ shown \in [length : Nat, capacity : Nat] /\ position \in Nat
        /\ owned = OwnedBy(Entries(table))
    BY InvEntries DEF TableInv
  <1>3. \A i \in Full(table) : position <= IF ordered THEN table.sequence[i] ELSE i
    BY Zenon DEF TableInv, Ahead
  <1>4. TableInv'
    BY <1>1, <1>2, <1>3, ClosedMove
  <1> QED
    BY <1>1, <1>4, Unseen

\* What is left is taken one after another: an iterator takes one as long as there is
\* one, and what is left then is further on.
Place(i) == IF ordered THEN table.sequence[i] ELSE i

LEMMA PlacesAre ==
    ASSUME TableInv
    PROVE  /\ \A i \in Full(table) : Place(i) \in Nat /\ position <= Place(i)
           /\ \A i, j \in Full(table) : Place(i) = Place(j) => i = j
           /\ position \in Nat
  <1>1. Well(table) /\ Ahead /\ ordered \in BOOLEAN /\ position \in Nat
    BY DEF TableInv
  <1>2. Typed(table) /\ Numbered(table)
    BY <1>1 DEF Well
  <1>3. /\ Full(table) \subseteq Slots(table) /\ table.sequence \in [Slots(table) -> Nat]
        /\ table.capacity \in Nat
    BY <1>2, TypedIs
  <1>4. Slots(table) \subseteq Nat
    BY <1>3 DEF Slots
  <1>5. \A i \in Full(table) : Place(i) \in Nat
    BY <1>1, <1>3, <1>4 DEF Place
  <1>6. \A i \in Full(table) : position <= Place(i)
    BY <1>1, Zenon DEF Ahead, Place
  <1>7. \A i, j \in Full(table) : Place(i) = Place(j) => i = j
    BY <1>1, <1>2, Zenon DEF Place, Numbered
  <1> QED
    BY <1>1, <1>5, <1>6, <1>7

LEMMA SelectedIs ==
    ASSUME TableInv
    PROVE  /\ Selected(table) = {} => Full(table) = {}
           /\ \A i \in Selected(table) :
                /\ i \in Full(table)
                /\ \A j \in Full(table) : Place(i) <= Place(j)
                /\ \A j \in Full(table) \ {i} : 1 + Place(i) <= Place(j)
  <1>1. /\ \A i \in Full(table) : Place(i) \in Nat /\ position <= Place(i)
        /\ \A i, j \in Full(table) : Place(i) = Place(j) => i = j
        /\ position \in Nat
    BY PlacesAre
  <1>2. ordered \in BOOLEAN
    BY DEF TableInv
  <1>3. Selected(table) = {i \in Full(table) :
                             /\ Place(i) >= position
                             /\ \A j \in Full(table) : Place(j) >= position => Place(i) <= Place(j)}
    BY <1>2, Zenon DEF Selected, Place
  <1>4. \A i \in Full(table) : Place(i) >= position
    BY <1>1
  <1>5. Selected(table) = {i \in Full(table) : \A j \in Full(table) : Place(i) <= Place(j)}
    BY <1>3, <1>4, Zenon
  <1>6. ASSUME Full(table) # {} PROVE Selected(table) # {}
    <2> DEFINE P == {Place(i) : i \in Full(table)}
    <2>1. P \subseteq Nat /\ P # {}
      BY <1>1, <1>6, Zenon
    <2>2. \E n \in P : \A m \in P : n <= m
      <3> HIDE DEF P
      <3> QED
        BY <2>1, LeastNumber
    <2>3. PICK i \in Full(table) : \A m \in P : Place(i) <= m
      BY <2>2, Zenon
    <2>4. \A j \in Full(table) : Place(i) <= Place(j)
      BY <2>3, Zenon
    <2> QED
      BY <1>5, <2>4, Zenon
  <1>7. ASSUME NEW i \in Selected(table)
        PROVE  /\ i \in Full(table)
               /\ \A j \in Full(table) : Place(i) <= Place(j)
               /\ \A j \in Full(table) \ {i} : 1 + Place(i) <= Place(j)
    <2>1. i \in Full(table) /\ \A j \in Full(table) : Place(i) <= Place(j)
      BY <1>5, <1>7, Zenon
    <2>2. ASSUME NEW j \in Full(table) \ {i} PROVE 1 + Place(i) <= Place(j)
      <3>1. Place(i) <= Place(j) /\ Place(i) # Place(j) /\ Place(i) \in Nat /\ Place(j) \in Nat
        BY <1>1, <2>1, <2>2, Zenon
      <3> QED
        BY <3>1
    <2> QED
      BY <2>1, <2>2, Zenon
  <1> QED
    BY <1>6, <1>7, Zenon

\* No key present was inserted before that of a slot no other's place comes before.
LEMMA FirstIs ==
    ASSUME TableInv, NEW i \in Full(table), \A j \in Full(table) : Place(i) <= Place(j), NEW k
    PROVE  <<k, table.keys[i].is>> \notin Earlier(Entries(table))
  <1> DEFINE S == Entries(table)
  <1>1. /\ ordered \in BOOLEAN /\ Well(table) /\ Proper(S)
    BY InvEntries
  <1>2. \A j : /\ EntryOf(table, j).key = table.keys[j]
               /\ EntryOf(table, j).order = IF ordered THEN Place(j) ELSE 0
    BY DEF EntryOf, Place
  <1>3. \A e \in S : \E j \in Full(table) : e = EntryOf(table, j)
    BY EntriesAre, Zenon
  <1>4. \A j \in Full(table) : Place(j) \in Nat
    BY PlacesAre
  <1> HIDE DEF S
  <1>5. SUFFICES ASSUME <<k, table.keys[i].is>> \in Earlier(S) PROVE FALSE
    BY Zenon DEF S
  <1>6. Precedes(S, k, table.keys[i].is)
    BY <1>1, <1>5, EarlierIs
  <1>7. PICK d, e \in S : e.key.is = table.keys[i].is /\ d.order < e.order
    BY <1>6, Zenon DEF Precedes
  <1>8. PICK j \in Full(table) : d = EntryOf(table, j)
    BY <1>3, Zenon
  <1>9. PICK h \in Full(table) : e = EntryOf(table, h)
    BY <1>3, Zenon
  <1>10. h = i
    <2>1. table.keys[h].is = table.keys[i].is
      BY <1>2, <1>7, <1>9
    <2> QED
      BY <1>1, <2>1, Zenon DEF Well, Unique
  <1>11. /\ d.order = IF ordered THEN Place(j) ELSE 0
         /\ e.order = IF ordered THEN Place(i) ELSE 0
    BY <1>2, <1>8, <1>9, <1>10
  <1>12. Place(i) <= Place(j) /\ Place(i) \in Nat /\ Place(j) \in Nat
    BY <1>4
  <1> QED
    BY <1>1, <1>7, <1>11, <1>12

LEMMA YieldStep ==
    ASSUME TableInv, nextEntry
    PROVE  TableInv' /\ Promise!Next
  <1> DEFINE S == Entries(table)
  <1>1. /\ stage = "iterating" /\ ordered' = ordered /\ shown' = shown /\ stage' = stage
        /\ IF Selected(table) = {}
           THEN /\ answer' = <<"entry", Undefined>>
                /\ position' = IF ordered THEN position ELSE table.capacity
                /\ UNCHANGED <<table, owned>>
           ELSE \E i \in Selected(table) :
                   /\ answer' = <<"entry", <<table.keys[i].is, table.values[i]>> >>
                   /\ position' = 1 + IF ordered THEN table.sequence[i] ELSE i
                   /\ table' = Vacated(table, i)
                   /\ owned' = owned \ {table.keys[i], table.values[i]}
    BY Zenon DEF nextEntry
  <1>2. /\ ordered \in BOOLEAN /\ Well(table) /\ owned = OwnedBy(S) /\ position \in Nat
        /\ table.length = Cardinality(Full(table)) /\ shown \in [length : Nat, capacity : Nat]
        /\ DOMAIN ValueOf(S) = KeysOf(S)
    BY InvEntries DEF TableInv
  <1>3. Promise!Present = KeysOf(S)
    BY <1>2, Zenon DEF Promise!Present
  <1>4. stage' \in {"iterating", "gone"} /\ stage' # "gone"
    BY <1>1
  <1>5. CASE Selected(table) = {}
    <2>1. /\ answer' = <<"entry", Undefined>> /\ table' = table /\ owned' = owned
          /\ position' = IF ordered THEN position ELSE table.capacity
      BY <1>1, <1>5, Zenon
    <2>2. Full(table) = {}
      BY <1>5, SelectedIs
    <2>3. position' \in Nat
      <3>1. table.capacity \in Nat
        BY LengthIs
      <3> QED
        BY <1>2, <2>1, <3>1
    <2>4. TableInv'
      BY <1>1, <1>2, <1>4, <2>1, <2>2, <2>3, ClosedMove
    <2>5. KeysOf(S) = {}
      <3>1. S = {}
        BY <2>2, Zenon DEF Entries
      <3> QED
        BY <3>1, NothingView
    <2>6. ValueOf(S)' = ValueOf(S) /\ Earlier(S)' = Earlier(S)
      BY <1>1, <2>1, SameView, Zenon
    <2>7. Promise!Yield
      BY <1>1, <1>3, <2>1, <2>5, <2>6, Zenon DEF Promise!Yield
    <2> QED
      BY <1>1, <2>4, <2>7, Zenon DEF Promise!Next
  <1>6. CASE Selected(table) # {}
    <2>1. PICK i \in Selected(table) :
            /\ answer' = <<"entry", <<table.keys[i].is, table.values[i]>> >>
            /\ position' = 1 + IF ordered THEN table.sequence[i] ELSE i
            /\ table' = Vacated(table, i)
            /\ owned' = owned \ {table.keys[i], table.values[i]}
      BY <1>1, <1>6, Zenon
    <2> DEFINE k == table.keys[i].is
    <2>2. /\ i \in Full(table)
          /\ \A j \in Full(table) : Place(i) <= Place(j)
          /\ \A j \in Full(table) \ {i} : 1 + Place(i) <= Place(j)
      BY SelectedIs, Zenon
    <2>3. /\ Well(table') /\ table'.length = Cardinality(Full(table'))
          /\ OwnedBy(Entries(table')) = owned \ {table.keys[i], table.values[i]}
          /\ RemoveView(S, Entries(table'), k)
          /\ k \in KeysOf(S) /\ ValueOf(S)[k] = table.values[i]
          /\ Full(table') = Full(table) \ {i}
          /\ \A j \in Full(table') : table'.sequence[j] = table.sequence[j]
      BY <2>1, <2>2, VacateView
    <2> HIDE DEF k, S
    <2>4. position' = 1 + Place(i)
      BY <2>1, Zenon DEF Place
    <2>5. Place(i) \in Nat
      BY <2>2, PlacesAre
    <2>6. position' \in Nat
      BY <2>4, <2>5
    <2>7. \A j \in Full(table') : position' <= IF ordered THEN table'.sequence[j] ELSE j
      BY <2>2, <2>3, <2>4, Zenon DEF Place
    <2>8. owned' = OwnedBy(Entries(table'))
      BY <2>1, <2>3
    <2>9. TableInv'
      BY <1>1, <1>2, <1>4, <2>3, <2>6, <2>7, <2>8, ClosedMove
    <2>10. Promise!Removed(k)
      BY <1>1, <2>3, RemovedPromised DEF S
    <2>11. \A j \in Promise!Present : <<j, k>> \notin Earlier(S)
      BY <2>2, FirstIs, Zenon DEF k, S
    <2>12. answer' = <<"entry", <<k, ValueOf(S)[k]>> >>
      BY <2>1, <2>3, Zenon DEF k
    <2>13. k \in Promise!Present
      BY <1>3, <2>3, Zenon
    <2>14. Promise!Yield
      BY <1>1, <2>10, <2>11, <2>12, <2>13, Zenon DEF Promise!Yield, S
    <2> QED
      BY <1>1, <2>9, <2>14, Zenon DEF Promise!Next
  <1> QED
    BY <1>5, <1>6

-----------------------------------------------------------------------------
(* The start, and all steps.                                                   *)

LEMMA InitIs == TableInit => TableInv /\ Promise!Init
  <1> SUFFICES ASSUME TableInit PROVE TableInv /\ Promise!Init
    OBVIOUS
  <1>1. /\ ordered \in BOOLEAN /\ shown = Show(table) /\ stage = "open" /\ position = 0
        /\ owned = {} /\ answer = <<"new">>
    BY Zenon DEF TableInit
  <1>2. PICK n \in TableCapacities : table = Constructed(n)
    BY Zenon DEF TableInit
  <1> DEFINE m == Max({n, 8})
  <1>3. m \in Nat \ {0}
    <2>1. n \in Nat /\ 8 \in Nat
      BY TypedTableConstants
    <2>2. m = IF n >= 8 THEN n ELSE 8
      BY <2>1, MaxIs
    <2> HIDE DEF m
    <2> QED
      BY <2>1, <2>2
  <1>4. table = Empty(m)
    BY <1>2, Zenon DEF Constructed
  <1> HIDE DEF m
  <1>5. Well(table) /\ table.length = 0 /\ Full(table) = {} /\ Entries(table) = {}
    BY <1>3, <1>4, EmptyIs
  <1>6. Owns(table) = {} /\ Cardinality(Full(table)) = 0
    <2>1. Owns(table) = OwnedBy({})
      BY <1>5, OwnsAre
    <2> QED
      BY <1>5, <2>1, NothingView, FS_EmptySet
  <1>7. shown \in [length : Nat, capacity : Nat] /\ shown.length = table.length
    BY <1>1, <1>5, ShowIs DEF Well
  <1>8. Ahead
    BY <1>5, Zenon DEF Ahead
  <1>9. TableInv
    BY <1>1, <1>5, <1>6, <1>7, <1>8 DEF TableInv
  <1>10. ValueOf(Entries(table)) = Promise!Nothing /\ Earlier(Entries(table)) = {}
    <2>1. ValueOf({}) = [k \in {} |-> Undefined] /\ Earlier({}) = {}
      BY NothingView
    <2> QED
      BY <1>5, <2>1, Zenon DEF Promise!Nothing
  <1>11. shown.length = 0
    BY <1>5, <1>7
  <1>12. Promise!Init
    BY <1>1, <1>10, <1>11, Zenon DEF Promise!Init
  <1> QED
    BY <1>9, <1>12

\* Every step keeps the invariant, and is one of Dictionary's or shows nothing.
LEMMA NextKeeps ==
    TableInv /\ [TableNext]_tvars => TableInv' /\ [Promise!Next]_(Promise!dvars)
  <1> SUFFICES ASSUME TableInv, [TableNext]_tvars
               PROVE  TableInv' /\ (Promise!Next \/ UNCHANGED Promise!dvars)
    BY Zenon
  <1>1. CASE UNCHANGED tvars
    <2>1. /\ ordered' = ordered /\ table' = table /\ shown' = shown /\ stage' = stage
          /\ position' = position /\ owned' = owned /\ answer' = answer
      BY <1>1 DEF tvars
    <2>2. /\ Well(table)' <=> Well(table')
          /\ Full(table)' = Full(table') /\ Owns(table)' = Owns(table')
      BY <2>1, LaterTable
    <2>3. Ahead'
      BY <2>1, <2>2, Zenon DEF TableInv, Ahead
    <2>4. TableInv'
      BY <2>1, <2>2, <2>3, Zenon DEF TableInv
    <2> QED
      BY <2>1, <2>4, Unseen
  <1>2. CASE TableNext
    BY <1>2, InsertStep, FindStep, RemoveStep, ClearStep, ReserveStep, ShrinkStep, IterateStep,
       YieldStep, DisposeStep, Zenon DEF TableNext
  <1> QED
    BY <1>1, <1>2

-----------------------------------------------------------------------------

\* What every search rests on: the slots of a key's search up to the one it is in are
\* none of them empty, keys are in one slot each, and fewer slots count as used than there
\* are.
THEOREM TableInvariant == TableSpec => []TableInv
  <1>1. TableInv /\ [TableNext]_tvars => TableInv'
    BY NextKeeps
  <1> QED
    BY <1>1, InitIs, PTL DEF TableSpec

\* Whatever was inserted, removed, refilled, rehashed, shrunk or cleared before, a table
\* has an empty slot, so that every search ends; and every key and value that was moved
\* in and not out again is in one full slot.  For any keys, hashes and capacities.
THEOREM TableIsSound == TableSpec => []TableSound
  BY TableInvariant, InvSound, PTL

\* Map, Set, OrderedMap and OrderedSet answer as a dictionary does: tombstones, collisions,
\* growing and shrinking show in no answer, and iterating gives back each entry once, in
\* an ordered table in the order of first insertion.
THEOREM TableIsDictionary == TableSpec => IsDictionary
  <1>1. TableInv /\ [TableNext]_tvars => TableInv' /\ [Promise!Next]_(Promise!dvars)
    BY NextKeeps
  <1>2. TableInit => TableInv /\ Promise!Init
    BY InitIs
  <1> QED
    BY <1>1, <1>2, PTL DEF TableSpec, IsDictionary, Promise!Spec
=============================================================================
