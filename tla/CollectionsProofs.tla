-------------------------- MODULE CollectionsProofs --------------------------
(* Proofs about Collections, for any values, capacities and lengths: each    *)
(* value that was moved in has one place, and Array, Queue, Deque and Heap   *)
(* give the answers Container promises.  What a heap's sift does along its   *)
(* path is proved by induction, which is drawn from the least number         *)
(* principle.                                                                *)
EXTENDS Collections, FiniteSetTheorems, SequenceTheorems, WellFoundedInduction, TLAPS

-----------------------------------------------------------------------------
(* Induction, and the paths of a sift.                                       *)

\* A set of natural numbers has a least one.
LEMMA LeastNumber ==
    ASSUME NEW S, S \subseteq Nat, S # {}
    PROVE  \E n \in S : \A m \in S : n <= m
  <1> DEFINE R == {ss \in Nat \X Nat : ss[1] < ss[2]}
  <1>1. IsWellFoundedOn(R, Nat)
    BY NatLessThanWellFounded, Zenon DEF OpToRel
  <1>2. \A x, y \in Nat : <<y, x>> \in R <=> y < x
    OBVIOUS
  <1> HIDE DEF R
  <1>3. \E n \in S : \A m \in S : ~(<<m, n>> \in R)
    BY <1>1, WFMin
  <1>4. \A x, y \in Nat : ~(y < x) => x <= y
    OBVIOUS
  <1> QED
    BY <1>2, <1>3, <1>4

\* A path goes from each slot of D to the one `onward`, until it stops; `left`
\* bounds what is left of it.
Leads(D, stop, onward, left, n) ==
    /\ n \in Nat
    /\ stop \subseteq D
    /\ onward \in [D \ stop -> D]
    /\ left \in [D -> 0 .. n]
    /\ \A k \in D \ stop : left[onward[k]] < left[k]

\* So a function that goes along the path from every slot exists: the one a recursive
\* definition names.
LEMMA PathsExist ==
    ASSUME NEW D, NEW stop, NEW onward, NEW left, NEW n, Leads(D, stop, onward, left, n)
    PROVE  \E f : f = [k \in D |-> IF k \in stop THEN <<k>> ELSE <<k>> \o f[onward[k]]]
  <1> DEFINE Near(m) == {k \in D : left[k] < m}
             Upto(m) == \E f : f = [k \in Near(m) |-> IF k \in stop THEN <<k>> ELSE <<k>> \o f[onward[k]]]
             Without == {m \in Nat : ~Upto(m)}
  <1>1. Upto(0)
    <2>1. Near(0) = {}
      BY DEF Leads
    <2> DEFINE f == [k \in {} |-> <<>>]
    <2>2. f = [k \in Near(0) |-> IF k \in stop THEN <<k>> ELSE <<k>> \o f[onward[k]]]
      BY <2>1
    <2> QED
      BY <2>2
  <1>2. ASSUME NEW m \in Nat, Upto(m) PROVE Upto(m + 1)
    <2>1. PICK f : f = [k \in Near(m) |-> IF k \in stop THEN <<k>> ELSE <<k>> \o f[onward[k]]]
      BY <1>2
    <2> DEFINE g == [k \in Near(m + 1) |-> IF k \in stop THEN <<k>> ELSE <<k>> \o f[onward[k]]]
    <2>2. \A k \in Near(m + 1) \ stop : onward[k] \in Near(m)
      BY DEF Leads
    <2>3. \A k \in Near(m) : k \in Near(m + 1)
      BY DEF Leads
    <2> HIDE DEF Near
    <2>4. \A k \in Near(m) : g[k] = f[k]
      BY <2>1, <2>3, Zenon
    <2>5. g = [k \in Near(m + 1) |-> IF k \in stop THEN <<k>> ELSE <<k>> \o g[onward[k]]]
      BY <2>2, <2>4, Zenon
    <2> QED
      BY <2>5, Zenon
  <1> HIDE DEF Upto
  <1>3. Without = {}
    <2> SUFFICES ASSUME Without # {} PROVE FALSE
      OBVIOUS
    <2>1. PICK m \in Without : \A l \in Without : m <= l
      BY LeastNumber
    <2>2. m \in Nat \ {0}
      BY <1>1, <2>1
    <2>3. m - 1 \in Nat /\ (m - 1) + 1 = m /\ ~(m <= m - 1)
      BY <2>2
    <2>4. Upto(m - 1)
      BY <2>1, <2>3
    <2> QED
      BY <1>2, <2>1, <2>3, <2>4
  <1>4. Upto(n + 1)
    BY <1>3 DEF Leads
  <1>5. Near(n + 1) = D
    BY DEF Leads
  <1> QED
    BY <1>4, <1>5, Zenon DEF Upto

\* Such a path goes on as it should, stops where it should, and passes no slot
\* twice.
IsPath(p, k, D, stop, onward, left) ==
    /\ p \in Seq(D) /\ Len(p) >= 1 /\ p[1] = k
    /\ \A j \in 1 .. Len(p) - 1 : p[j] \notin stop /\ p[j + 1] = onward[p[j]]
    /\ p[Len(p)] \in stop
    /\ \A i, j \in 1 .. Len(p) : i < j => left[p[j]] < left[p[i]]

\* And it gives, from every slot, a path.
LEMMA PathsLead ==
    ASSUME NEW D, NEW stop, NEW onward, NEW left, NEW n, Leads(D, stop, onward, left, n),
           NEW f, f = [k \in D |-> IF k \in stop THEN <<k>> ELSE <<k>> \o f[onward[k]]],
           NEW d \in D
    PROVE  IsPath(f[d], d, D, stop, onward, left)
  <1> DEFINE Good(k) == IsPath(f[k], k, D, stop, onward, left)
             Bad == {left[k] : k \in {e \in D : ~Good(e)}}
  <1>0. stop \subseteq D /\ left \in [D -> Nat] /\ onward \in [D \ stop -> D]
        /\ \A k \in D \ stop : left[onward[k]] < left[k]
    BY DEF Leads
  <1>1. ASSUME NEW k \in stop PROVE Good(k)
    <2>1. f[k] = <<k>> /\ k \in D
      BY <1>0, <1>1
    <2> QED
      BY <1>1, <2>1 DEF IsPath
  <1>2. ASSUME NEW k \in D \ stop, Good(onward[k]) PROVE Good(k)
    <2> DEFINE q == f[onward[k]]
               p == <<k>> \o q
    <2>1. f[k] = p /\ onward[k] \in D /\ k \in D
      BY <1>0, <1>2
    <2>2. IsPath(q, onward[k], D, stop, onward, left)
      BY <1>2
    <2> HIDE DEF q
    <2>3. q \in Seq(D) /\ Len(q) \in Nat \ {0}
      BY <2>2 DEF IsPath
    <2>4. /\ p \in Seq(D) /\ Len(p) = Len(q) + 1 /\ p[1] = k
          /\ \A j \in 1 .. Len(q) : p[j + 1] = q[j]
      BY <2>1, <2>3
    <2> HIDE DEF p
    <2>5. ASSUME NEW j \in 2 .. Len(p) PROVE p[j] = q[j - 1] /\ j - 1 \in 1 .. Len(q)
      <3>1. j - 1 \in 1 .. Len(q) /\ (j - 1) + 1 = j
        BY <2>3, <2>4
      <3> QED
        BY <2>4, <3>1
    <2>6. ASSUME NEW j \in 1 .. Len(p) - 1 PROVE p[j] \notin stop /\ p[j + 1] = onward[p[j]]
      <3>1. CASE j = 1
        BY <1>2, <2>2, <2>3, <2>4, <3>1, SMTT(30) DEF IsPath
      <3>2. CASE j # 1
        <4>1. j \in 2 .. Len(p) /\ j + 1 \in 2 .. Len(p) /\ j - 1 \in 1 .. Len(q) - 1
              /\ (j + 1) - 1 = (j - 1) + 1
          BY <2>3, <2>4, <3>2
        <4>2. p[j] = q[j - 1] /\ p[j + 1] = q[(j - 1) + 1]
          BY <2>5, <4>1
        <4> QED
          BY <2>2, <4>1, <4>2 DEF IsPath
      <3> QED
        BY <3>1, <3>2
    <2>7. p[Len(p)] \in stop
      BY <2>2, <2>3, <2>4 DEF IsPath
    <2>8. ASSUME NEW j \in 1 .. Len(q) PROVE left[q[j]] < left[k] /\ left[q[j]] \in Nat
      <3>1. left[q[1]] < left[k]
        BY <1>0, <1>2, <2>2 DEF IsPath
      <3>2. q[j] \in D /\ q[1] \in D
        BY <2>3
      <3>3. j # 1 => left[q[j]] < left[q[1]]
        BY <2>2, <2>3 DEF IsPath
      <3> QED
        BY <1>0, <2>1, <3>1, <3>2, <3>3
    <2>9. ASSUME NEW i \in 1 .. Len(p), NEW j \in 1 .. Len(p), i < j
          PROVE  left[p[j]] < left[p[i]]
      <3>1. p[j] = q[j - 1] /\ j - 1 \in 1 .. Len(q)
        BY <2>3, <2>4, <2>5, <2>9
      <3>2. CASE i = 1
        BY <2>4, <2>8, <3>1, <3>2
      <3>3. CASE i # 1
        <4>1. p[i] = q[i - 1] /\ i - 1 \in 1 .. Len(q) /\ i - 1 < j - 1
          BY <2>3, <2>4, <2>5, <2>9, <3>3
        <4> QED
          BY <2>2, <3>1, <4>1 DEF IsPath
      <3> QED
        BY <3>2, <3>3
    <2>10. IsPath(p, k, D, stop, onward, left)
      BY <2>3, <2>4, <2>6, <2>7, <2>9 DEF IsPath
    <2> QED
      BY <2>1, <2>10
  <1> HIDE DEF Good
  <1>3. Bad = {}
    <2> SUFFICES ASSUME Bad # {} PROVE FALSE
      OBVIOUS
    <2>1. Bad \subseteq Nat
      BY <1>0
    <2>2. PICK m \in Bad : \A l \in Bad : m <= l
      BY <2>1, LeastNumber
    <2>3. PICK k \in D : ~Good(k) /\ left[k] = m
      BY <2>2
    <2>4. k \notin stop
      BY <1>1, <2>3
    <2>5. onward[k] \in D /\ left[onward[k]] < left[k] /\ left[onward[k]] \in Nat /\ left[k] \in Nat
      BY <1>0, <2>4
    <2>6. Good(onward[k])
      <3>1. ~(m <= left[onward[k]])
        BY <2>3, <2>5
      <3>2. ~Good(onward[k]) => left[onward[k]] \in Bad
        BY <2>5
      <3> QED
        BY <2>2, <3>1, <3>2
    <2> QED
      BY <1>2, <2>3, <2>4, <2>6
  <1> QED
    BY <1>3 DEF Good

-----------------------------------------------------------------------------
(* Blocks, and the row of values in them.                                    *)

\* The k-th slot from h on in a block of c; k counts from 0.
Pos(c, h, k) == (h + k) % c

\* A ring wraps around once.
LEMMA PosIs ==
    ASSUME NEW c \in Nat \ {0}, NEW h \in 0 .. c - 1
    PROVE  \A k \in 0 .. c : Pos(c, h, k) = IF h + k < c THEN h + k ELSE h + k - c
  <1> SUFFICES ASSUME NEW k \in 0 .. c
               PROVE  (h + k) % c = IF h + k < c THEN h + k ELSE h + k - c
    BY DEF Pos
  <1> DEFINE a == h + k
  <1>1. a \in Nat /\ a < 2 * c
    OBVIOUS
  <1>2. a % c = IF a < c THEN a ELSE a - c
    <2> HIDE DEF a
    <2> QED
      BY <1>1
  <1> QED
    BY <1>2

\* Each of them is another one, and the last is followed by the first.
LEMMA PosFacts ==
    ASSUME NEW c \in Nat \ {0}, NEW h \in 0 .. c - 1
    PROVE  /\ \A k \in 0 .. c : Pos(c, h, k) \in 0 .. c - 1
           /\ \A j, k \in 0 .. c - 1 : Pos(c, h, j) = Pos(c, h, k) => j = k
           /\ Pos(c, h, 0) = h
           /\ h = 0 => \A k \in 0 .. c - 1 : Pos(c, h, k) = k
           /\ \A k \in 0 .. c - 1 : Pos(c, Pos(c, h, 1), k) = Pos(c, h, k + 1)
  <1>1. \A k \in 0 .. c : Pos(c, h, k) = IF h + k < c THEN h + k ELSE h + k - c
    BY PosIs
  <1>2. \A k \in 0 .. c : Pos(c, h, k) \in 0 .. c - 1
    BY <1>1
  <1>3. \A j, k \in 0 .. c - 1 : Pos(c, h, j) = Pos(c, h, k) => j = k
    BY <1>1
  <1>4. Pos(c, h, 0) = h
    BY <1>1
  <1>5. h = 0 => \A k \in 0 .. c - 1 : Pos(c, h, k) = k
    BY <1>1
  <1>6. ASSUME NEW k \in 0 .. c - 1
        PROVE  Pos(c, Pos(c, h, 1), k) = Pos(c, h, k + 1)
    <2>1. Pos(c, h, 1) = IF h + 1 < c THEN h + 1 ELSE 0
      BY <1>1
    <2>2. Pos(c, h, k + 1) = IF h + (k + 1) < c THEN h + (k + 1) ELSE h + (k + 1) - c
      BY <1>1
    <2> DEFINE g == Pos(c, h, 1)
    <2>3. g \in 0 .. c - 1
      BY <1>2
    <2>4. Pos(c, g, k) = IF g + k < c THEN g + k ELSE g + k - c
      <3> HIDE DEF g
      <3> QED
        BY <2>3, PosIs
    <2> QED
      BY <2>1, <2>2, <2>4
  <1> QED
    BY <1>2, <1>3, <1>4, <1>5, <1>6

\* A block of c slots.
Blocks(c) == [slots : [0 .. c - 1 -> Values \cup {Junk}], initialized : [0 .. c - 1 -> BOOLEAN]]

\* It holds n values from the slot h on: these are the ones it owns, unless they
\* are copied.
Window(c, h, n) == {Pos(c, h, k) : k \in 0 .. n - 1}
Holds(m, c, h, n) ==
    /\ c \in Nat /\ n \in 0 .. c
    /\ h \in Nat /\ (c = 0 => h = 0) /\ (c # 0 => h < c)
    /\ m \in Blocks(c)
    /\ \A k \in 0 .. n - 1 : m.slots[Pos(c, h, k)] \in Values
    /\ \A i \in 0 .. c - 1 : m.initialized[i] <=> ~copied /\ i \in Window(c, h, n)

RowOf(m, c, h, n) == [i \in 1 .. n |-> m.slots[Pos(c, h, i - 1)]]

\* The row of the values a block holds.
LEMMA RowIs ==
    ASSUME NEW m, NEW c, NEW h, NEW n, Holds(m, c, h, n)
    PROVE  /\ RowOf(m, c, h, n) \in Seq(Values)
           /\ Len(RowOf(m, c, h, n)) = n
           /\ \A k \in 0 .. n - 1 : RowOf(m, c, h, n)[k + 1] = m.slots[Pos(c, h, k)]
  <1> DEFINE s == RowOf(m, c, h, n)
  <1>1. n \in Nat /\ \A i \in 1 .. n : i - 1 \in 0 .. n - 1
    BY DEF Holds
  <1>2. s \in [1 .. n -> Values]
    BY <1>1 DEF Holds, RowOf
  <1>3. s \in Seq(Values) /\ Len(s) = n
    BY <1>1, <1>2, IsASeq
  <1>4. ASSUME NEW k \in 0 .. n - 1 PROVE s[k + 1] = m.slots[Pos(c, h, k)]
    <2>1. k + 1 \in 1 .. n /\ (k + 1) - 1 = k
      BY <1>1
    <2> QED
      BY <2>1 DEF RowOf
  <1> QED
    BY <1>3, <1>4

\* Rows with the same values are the same.
LEMMA RowsEqual ==
    ASSUME NEW m, NEW c, NEW h, NEW n, Holds(m, c, h, n),
           NEW s, s \in Seq(Values), Len(s) = n,
           \A k \in 0 .. n - 1 : m.slots[Pos(c, h, k)] = s[k + 1]
    PROVE  RowOf(m, c, h, n) = s
  <1>1. /\ RowOf(m, c, h, n) \in Seq(Values)
        /\ Len(RowOf(m, c, h, n)) = n
        /\ \A k \in 0 .. n - 1 : RowOf(m, c, h, n)[k + 1] = m.slots[Pos(c, h, k)]
    BY RowIs
  <1>2. ASSUME NEW i \in 1 .. n PROVE RowOf(m, c, h, n)[i] = s[i]
    <2>1. i - 1 \in 0 .. n - 1 /\ (i - 1) + 1 = i
      BY DEF Holds
    <2> QED
      BY <1>1, <2>1
  <1> QED
    BY <1>1, <1>2, SeqEqual

\* A block is what its slots and bytes are.
LEMMA PutIs ==
    ASSUME NEW c, c \in Nat, NEW m \in Blocks(c), NEW i \in 0 .. c - 1, NEW v \in Values
    PROVE  /\ Put(m, i, v) \in Blocks(c)
           /\ \A j \in 0 .. c - 1 : Put(m, i, v).slots[j] = IF j = i THEN v ELSE m.slots[j]
           /\ copied => Put(m, i, v).initialized = m.initialized
           /\ ~copied => \A j \in 0 .. c - 1 :
                 Put(m, i, v).initialized[j] <=> j = i \/ m.initialized[j]
  <1> DEFINE p == Put(m, i, v)
  <1>1. /\ m.slots \in [0 .. c - 1 -> Values \cup {Junk}]
        /\ m.initialized \in [0 .. c - 1 -> BOOLEAN]
    BY DEF Blocks
  <1>2. /\ p.slots = [m.slots EXCEPT ![i] = v]
        /\ p.initialized = [m.initialized EXCEPT ![i] = @ \/ ~copied]
        /\ p = [slots |-> p.slots, initialized |-> p.initialized]
    BY DEF Put
  <1>3. p.slots \in [0 .. c - 1 -> Values \cup {Junk}]
    BY <1>1, <1>2
  <1>4. p.initialized \in [0 .. c - 1 -> BOOLEAN]
    <2>1. (m.initialized[i] \/ ~copied) \in BOOLEAN
      OBVIOUS
    <2> QED
      BY <1>1, <1>2, <2>1
  <1>5. copied => p.initialized = m.initialized
    <2> SUFFICES ASSUME copied PROVE p.initialized = m.initialized
      OBVIOUS
    <2>1. (m.initialized[i] \/ ~copied) = m.initialized[i]
      BY <1>1
    <2> QED
      BY <1>1, <1>2, <2>1, SMTT(30)
  <1>6. ~copied => \A j \in 0 .. c - 1 : p.initialized[j] <=> j = i \/ m.initialized[j]
    BY <1>1, <1>2
  <1>7. p \in Blocks(c)
    BY <1>2, <1>3, <1>4 DEF Blocks
  <1> QED
    BY <1>1, <1>2, <1>5, <1>6, <1>7

\* What taking a value from a slot does to a block.
LEMMA TakenIs ==
    ASSUME NEW c, c \in Nat, NEW m \in Blocks(c), NEW i \in 0 .. c - 1
    PROVE  /\ MovedOut(m, i) \in Blocks(c)
           /\ \A j \in 0 .. c - 1 : j # i => MovedOut(m, i).slots[j] = m.slots[j]
           /\ copied => MovedOut(m, i) = m
           /\ ~copied => \A j \in 0 .. c - 1 :
                 MovedOut(m, i).initialized[j] <=> j # i /\ m.initialized[j]
  <1> DEFINE p == MovedOut(m, i)
  <1>1. /\ m.slots \in [0 .. c - 1 -> Values \cup {Junk}]
        /\ m.initialized \in [0 .. c - 1 -> BOOLEAN]
    BY DEF Blocks
  <1>2. CASE copied
    BY <1>2 DEF MovedOut
  <1>3. CASE ~copied
    <2>1. /\ p.slots = [m.slots EXCEPT ![i] = Junk]
          /\ p.initialized = [m.initialized EXCEPT ![i] = FALSE]
          /\ p = [slots |-> p.slots, initialized |-> p.initialized]
      BY <1>3 DEF MovedOut
    <2>2. p.slots \in [0 .. c - 1 -> Values \cup {Junk}] /\ p.initialized \in [0 .. c - 1 -> BOOLEAN]
      BY <1>1, <2>1
    <2>3. p \in Blocks(c)
      BY <2>1, <2>2 DEF Blocks
    <2> QED
      BY <1>1, <1>3, <2>1, <2>3
  <1> QED
    BY <1>2, <1>3

\* The window with the slot after its last,
LEMMA WindowGrows ==
    ASSUME NEW c \in Nat \ {0}, NEW h \in 0 .. c - 1, NEW n \in 0 .. c - 1
    PROVE  /\ Pos(c, h, n) \notin Window(c, h, n)
           /\ Window(c, h, n + 1) = Window(c, h, n) \cup {Pos(c, h, n)}
  <1>1. \A k \in 0 .. n - 1 : Pos(c, h, n) # Pos(c, h, k)
    BY PosFacts
  <1>2. 0 .. (n + 1) - 1 = (0 .. n - 1) \cup {n}
    OBVIOUS
  <1> QED
    BY <1>1, <1>2 DEF Window

\* and without its first.
LEMMA WindowShrinks ==
    ASSUME NEW c \in Nat \ {0}, NEW h \in 0 .. c - 1, NEW n \in 1 .. c
    PROVE  /\ h \notin Window(c, Pos(c, h, 1), n - 1)
           /\ Window(c, h, n) = Window(c, Pos(c, h, 1), n - 1) \cup {h}
  <1>1. \A k \in 0 .. n - 2 : Pos(c, Pos(c, h, 1), k) = Pos(c, h, k + 1) /\ Pos(c, h, k + 1) # Pos(c, h, 0)
    BY PosFacts
  <1>2. Pos(c, h, 0) = h
    BY PosFacts
  <1>3. (n - 1) - 1 = n - 2
    OBVIOUS
  <1>4. Window(c, Pos(c, h, 1), n - 1) = {Pos(c, h, k + 1) : k \in 0 .. n - 2}
    BY <1>1, <1>3, Zenon DEF Window
  <1>5. ASSUME NEW j \in 0 .. n - 1
        PROVE  Pos(c, h, j) \in {Pos(c, h, k + 1) : k \in 0 .. n - 2} \cup {h}
    <2>1. CASE j = 0
      BY <1>2, <2>1
    <2>2. CASE j # 0
      <3>1. j - 1 \in 0 .. n - 2 /\ (j - 1) + 1 = j
        BY <2>2
      <3> QED
        BY <3>1
    <2> QED
      BY <2>1, <2>2
  <1>6. \A k \in 0 .. n - 2 : k + 1 \in 0 .. n - 1
    OBVIOUS
  <1>7. 0 \in 0 .. n - 1
    OBVIOUS
  <1>8. Window(c, h, n) = {Pos(c, h, k + 1) : k \in 0 .. n - 2} \cup {h}
    BY <1>2, <1>5, <1>6, <1>7, Zenon DEF Window
  <1> QED
    BY <1>1, <1>2, <1>4, <1>8

\* The slots of a window are in the block, and none is in it twice.
LEMMA HoldsFacts ==
    ASSUME NEW m, NEW c, NEW h, NEW n, Holds(m, c, h, n), c # 0
    PROVE  /\ c \in Nat \ {0} /\ h \in 0 .. c - 1 /\ n \in 0 .. c
           /\ m \in Blocks(c) /\ m.initialized \in [0 .. c - 1 -> BOOLEAN]
           /\ \A k \in 0 .. n - 1 : Pos(c, h, k) \in 0 .. c - 1 /\ Pos(c, h, k) \in Window(c, h, n)
           /\ Window(c, h, n) \subseteq 0 .. c - 1
  <1>1. c \in Nat \ {0} /\ h \in 0 .. c - 1 /\ n \in 0 .. c
        /\ m \in Blocks(c) /\ m.initialized \in [0 .. c - 1 -> BOOLEAN]
    BY DEF Holds, Blocks
  <1>2. \A k \in 0 .. n - 1 : k \in 0 .. c
    BY <1>1
  <1>3. \A k \in 0 .. n - 1 : Pos(c, h, k) \in 0 .. c - 1
    BY <1>1, <1>2, PosFacts
  <1> QED
    BY <1>1, <1>3 DEF Window

\* A value put after the last one is appended to the row.
LEMMA PutLast ==
    ASSUME NEW m, NEW c, NEW h, NEW n, Holds(m, c, h, n), n < c, NEW v \in Values,
           NEW i, i = Pos(c, h, n)
    PROVE  /\ i \in 0 .. c - 1 /\ ~m.initialized[i]
           /\ Holds(Put(m, i, v), c, h, n + 1)
           /\ RowOf(Put(m, i, v), c, h, n + 1) = Append(RowOf(m, c, h, n), v)
  <1> DEFINE p == Put(m, i, v)
             s == RowOf(m, c, h, n)
  <1>1. /\ c \in Nat \ {0} /\ h \in 0 .. c - 1 /\ n \in 0 .. c - 1 /\ n \in Nat
        /\ m \in Blocks(c) /\ m.initialized \in [0 .. c - 1 -> BOOLEAN]
        /\ \A k \in 0 .. n - 1 : Pos(c, h, k) \in 0 .. c - 1 /\ Pos(c, h, k) \in Window(c, h, n)
    <2>1. c \in Nat /\ n \in Nat /\ c # 0
      BY DEF Holds
    <2>2. /\ c \in Nat \ {0} /\ h \in 0 .. c - 1 /\ n \in 0 .. c
          /\ m \in Blocks(c) /\ m.initialized \in [0 .. c - 1 -> BOOLEAN]
          /\ \A k \in 0 .. n - 1 : Pos(c, h, k) \in 0 .. c - 1 /\ Pos(c, h, k) \in Window(c, h, n)
      BY <2>1, HoldsFacts, Zenon
    <2> QED
      BY <2>1, <2>2
  <1>2. i \notin Window(c, h, n) /\ Window(c, h, n + 1) = Window(c, h, n) \cup {i}
    BY <1>1, WindowGrows
  <1>3. i \in 0 .. c - 1
    BY <1>1, PosFacts
  <1>4. /\ p \in Blocks(c)
        /\ \A j \in 0 .. c - 1 : p.slots[j] = IF j = i THEN v ELSE m.slots[j]
        /\ copied => p.initialized = m.initialized
        /\ ~copied => \A j \in 0 .. c - 1 : p.initialized[j] <=> j = i \/ m.initialized[j]
    BY <1>1, <1>3, PutIs
  <1>5. ~m.initialized[i]
    BY <1>2, <1>3 DEF Holds
  <1> HIDE DEF p
  <1>6. \A k \in 0 .. n - 1 : p.slots[Pos(c, h, k)] = m.slots[Pos(c, h, k)]
    BY <1>1, <1>2, <1>4
  <1>7. p.slots[Pos(c, h, n)] = v
    BY <1>3, <1>4
  <1>8. \A k \in 0 .. (n + 1) - 1 : k \in 0 .. n - 1 \/ k = n
    BY <1>1
  <1>9. Holds(p, c, h, n + 1)
    <2>1. \A k \in 0 .. (n + 1) - 1 : p.slots[Pos(c, h, k)] \in Values
      BY <1>6, <1>7, <1>8 DEF Holds
    <2>2. \A j \in 0 .. c - 1 : p.initialized[j] <=> ~copied /\ j \in Window(c, h, n + 1)
      BY <1>2, <1>4 DEF Holds
    <2>3. n + 1 \in 0 .. c
      BY <1>1
    <2> QED
      BY <1>1, <1>4, <2>1, <2>2, <2>3 DEF Holds
  <1>10. s \in Seq(Values) /\ Len(s) = n /\ \A k \in 0 .. n - 1 : s[k + 1] = m.slots[Pos(c, h, k)]
    BY RowIs
  <1> HIDE DEF s
  <1> DEFINE t == Append(s, v)
  <1>11. /\ t \in Seq(Values) /\ Len(t) = n + 1
         /\ t[n + 1] = v
         /\ \A k \in 0 .. n - 1 : t[k + 1] = s[k + 1]
    <2>1. \A k \in 0 .. n - 1 : k + 1 \in 1 .. n
      BY <1>1
    <2> QED
      BY <1>10, <2>1, AppendProperties
  <1> HIDE DEF t
  <1>12. \A k \in 0 .. (n + 1) - 1 : p.slots[Pos(c, h, k)] = t[k + 1]
    BY <1>6, <1>7, <1>8, <1>10, <1>11
  <1>13. RowOf(p, c, h, n + 1) = t
    BY <1>9, <1>11, <1>12, RowsEqual
  <1> QED
    BY <1>3, <1>5, <1>9, <1>13 DEF p, s, t

\* A value put before the first one comes first in the row.
LEMMA PutFirst ==
    ASSUME NEW m, NEW c, NEW h, NEW n, Holds(m, c, h, n), n < c, NEW v \in Values,
           NEW i, i = IF n = 0 THEN 0 ELSE Before(h, c)
    PROVE  /\ i \in 0 .. c - 1 /\ ~m.initialized[i]
           /\ Holds(Put(m, i, v), c, i, n + 1)
           /\ RowOf(Put(m, i, v), c, i, n + 1) = <<v>> \o RowOf(m, c, h, n)
  <1> DEFINE p == Put(m, i, v)
             s == RowOf(m, c, h, n)
  <1>1. /\ c \in Nat \ {0} /\ h \in 0 .. c - 1 /\ n \in 0 .. c - 1 /\ n \in Nat
        /\ m \in Blocks(c) /\ m.initialized \in [0 .. c - 1 -> BOOLEAN]
        /\ \A k \in 0 .. n - 1 : Pos(c, h, k) \in 0 .. c - 1 /\ Pos(c, h, k) \in Window(c, h, n)
    <2>1. c \in Nat /\ n \in Nat /\ c # 0
      BY DEF Holds
    <2>2. /\ c \in Nat \ {0} /\ h \in 0 .. c - 1 /\ n \in 0 .. c
          /\ m \in Blocks(c) /\ m.initialized \in [0 .. c - 1 -> BOOLEAN]
          /\ \A k \in 0 .. n - 1 : Pos(c, h, k) \in 0 .. c - 1 /\ Pos(c, h, k) \in Window(c, h, n)
      BY <2>1, HoldsFacts, Zenon
    <2> QED
      BY <2>1, <2>2
  <1>2. i \in 0 .. c - 1
    BY <1>1 DEF Before
  <1>3. n # 0 => Pos(c, i, 1) = h
    <2>1. \A k \in 0 .. c : Pos(c, i, k) = IF i + k < c THEN i + k ELSE i + k - c
      BY <1>1, <1>2, PosIs, Zenon
    <2>2. Pos(c, i, 1) = IF i + 1 < c THEN i + 1 ELSE i + 1 - c
      BY <1>1, <2>1
    <2> QED
      BY <1>1, <2>2 DEF Before
  <1>4. \A k \in 0 .. n - 1 : Pos(c, i, k + 1) = Pos(c, h, k)
    <2> SUFFICES ASSUME NEW k \in 0 .. n - 1 PROVE Pos(c, i, k + 1) = Pos(c, h, k)
      OBVIOUS
    <2>1. n # 0 /\ k \in 0 .. c - 1
      BY <1>1
    <2>2. Pos(c, Pos(c, i, 1), k) = Pos(c, i, k + 1)
      BY <1>1, <1>2, <2>1, PosFacts
    <2> QED
      BY <1>3, <2>1, <2>2
  <1>5. i \notin Window(c, h, n) /\ Window(c, i, n + 1) = Window(c, h, n) \cup {i}
    <2> DEFINE q == n + 1
    <2>1. q \in 1 .. c /\ q - 1 = n
      BY <1>1
    <2> HIDE DEF q
    <2>5. ASSUME NEW g \in 0 .. c - 1, NEW r \in 1 .. c
          PROVE  /\ g \notin Window(c, Pos(c, g, 1), r - 1)
                 /\ Window(c, g, r) = Window(c, Pos(c, g, 1), r - 1) \cup {g}
      BY <1>1, WindowShrinks
    <2>4. /\ i \notin Window(c, Pos(c, i, 1), q - 1)
          /\ Window(c, i, q) = Window(c, Pos(c, i, 1), q - 1) \cup {i}
      BY <1>2, <2>1, <2>5
    <2>2. i \notin Window(c, Pos(c, i, 1), n) /\ Window(c, i, n + 1) = Window(c, Pos(c, i, 1), n) \cup {i}
      BY <2>1, <2>4 DEF q
    <2>3. n = 0 => Window(c, h, n) = {} /\ Window(c, Pos(c, i, 1), n) = {}
      BY DEF Window
    <2> QED
      BY <1>3, <2>2, <2>3
  <1>6. /\ p \in Blocks(c)
        /\ \A j \in 0 .. c - 1 : p.slots[j] = IF j = i THEN v ELSE m.slots[j]
        /\ copied => p.initialized = m.initialized
        /\ ~copied => \A j \in 0 .. c - 1 : p.initialized[j] <=> j = i \/ m.initialized[j]
    BY <1>1, <1>2, PutIs
  <1>7. ~m.initialized[i]
    BY <1>2, <1>5 DEF Holds
  <1> HIDE DEF p
  <1>8. \A k \in 0 .. n - 1 : p.slots[Pos(c, i, k + 1)] = m.slots[Pos(c, h, k)]
    BY <1>1, <1>4, <1>5, <1>6
  <1>9. p.slots[Pos(c, i, 0)] = v
    BY <1>1, <1>2, <1>6, PosFacts
  <1>10. \A k \in 0 .. (n + 1) - 1 : k = 0 \/ (k - 1 \in 0 .. n - 1 /\ (k - 1) + 1 = k)
    BY <1>1
  <1>11. Holds(p, c, i, n + 1)
    <2>1. ASSUME NEW k \in 0 .. (n + 1) - 1 PROVE p.slots[Pos(c, i, k)] \in Values
      <3>1. \A l \in 0 .. n - 1 : m.slots[Pos(c, h, l)] \in Values
        BY DEF Holds
      <3>2. CASE k = 0
        BY <1>9, <3>2
      <3>3. CASE k - 1 \in 0 .. n - 1 /\ (k - 1) + 1 = k
        BY <1>8, <3>1, <3>3
      <3> QED
        BY <1>10, <3>2, <3>3
    <2>2. \A j \in 0 .. c - 1 : p.initialized[j] <=> ~copied /\ j \in Window(c, i, n + 1)
      BY <1>5, <1>6 DEF Holds
    <2>3. n + 1 \in 0 .. c
      BY <1>1
    <2> QED
      BY <1>1, <1>2, <1>6, <2>1, <2>2, <2>3 DEF Holds
  <1>12. s \in Seq(Values) /\ Len(s) = n /\ \A k \in 0 .. n - 1 : s[k + 1] = m.slots[Pos(c, h, k)]
    BY RowIs
  <1> HIDE DEF s
  <1> DEFINE t == <<v>> \o s
  <1>13. /\ t \in Seq(Values) /\ Len(t) = n + 1 /\ t[1] = v
         /\ \A k \in 1 .. n : t[k + 1] = s[k]
    BY <1>12
  <1> HIDE DEF t
  <1>14. ASSUME NEW k \in 0 .. (n + 1) - 1 PROVE p.slots[Pos(c, i, k)] = t[k + 1]
    <2>1. CASE k = 0
      BY <1>9, <1>13, <2>1
    <2>2. CASE k - 1 \in 0 .. n - 1 /\ (k - 1) + 1 = k
      <3>1. p.slots[Pos(c, i, k)] = s[k]
        BY <1>8, <1>12, <2>2
      <3>2. k \in 1 .. n
        BY <1>1, <2>2
      <3> QED
        BY <1>13, <3>1, <3>2
    <2> QED
      BY <1>10, <2>1, <2>2
  <1>15. RowOf(p, c, i, n + 1) = t
    BY <1>11, <1>13, <1>14, RowsEqual
  <1> QED
    BY <1>2, <1>7, <1>11, <1>15 DEF p, s, t

\* A row without its i-th value.
LEMMA WithoutIs ==
    ASSUME NEW V, NEW s \in Seq(V), NEW i \in 1 .. Len(s), NEW t, t = Promised!Without(s, i)
    PROVE  /\ t \in Seq(V) /\ Len(t) = Len(s) - 1
           /\ \A j \in 1 .. Len(s) - 1 : t[j] = IF j < i THEN s[j] ELSE s[j + 1]
  <1> DEFINE a == SubSeq(s, 1, i - 1)
             b == SubSeq(s, i + 1, Len(s))
  <1>1. /\ a \in Seq(V) /\ Len(a) = i - 1
        /\ \A j \in 1 .. i - 1 : a[j] = s[j]
    OBVIOUS
  <1>2. /\ b \in Seq(V) /\ Len(b) = Len(s) - i
        /\ \A j \in 1 .. Len(s) - i : b[j] = s[i + j]
    OBVIOUS
  <1>3. t = a \o b
    BY DEF Promised!Without
  <1> HIDE DEF a, b
  <1>4. t \in Seq(V) /\ Len(t) = Len(a) + Len(b)
        /\ \A j \in 1 .. Len(a) + Len(b) : t[j] = IF j <= Len(a) THEN a[j] ELSE b[j - Len(a)]
    <2>1. /\ a \o b \in Seq(V) /\ Len(a \o b) = Len(a) + Len(b)
          /\ \A j \in 1 .. Len(a) + Len(b) :
                (a \o b)[j] = IF j <= Len(a) THEN a[j] ELSE b[j - Len(a)]
      BY <1>1, <1>2, ConcatProperties
    <2> QED
      BY <1>3, <2>1
  <1>5. Len(t) = Len(s) - 1
    BY <1>1, <1>2, <1>4
  <1>6. ASSUME NEW j \in 1 .. Len(s) - 1 PROVE t[j] = IF j < i THEN s[j] ELSE s[j + 1]
    <2>1. j \in 1 .. Len(a) + Len(b)
      BY <1>1, <1>2
    <2>2. CASE j < i
      <3>1. j <= Len(a) /\ j \in 1 .. i - 1
        BY <1>1, <2>2
      <3> QED
        BY <1>1, <1>4, <2>1, <2>2, <3>1
    <2>3. CASE ~(j < i)
      <3>1. ~(j <= Len(a)) /\ j - Len(a) = j - i + 1 /\ j - i + 1 \in 1 .. Len(s) - i
            /\ i + (j - i + 1) = j + 1
        BY <1>1, <2>3
      <3>2. t[j] = b[j - i + 1]
        BY <1>4, <2>1, <3>1
      <3>3. b[j - i + 1] = s[j + 1]
        BY <1>2, <3>1
      <3> QED
        BY <2>3, <3>2, <3>3
    <2> QED
      BY <2>2, <2>3
  <1> QED
    BY <1>4, <1>5, <1>6

\* Without its first value, the block holds the rest of the row.
LEMMA TakeFromFront ==
    ASSUME NEW m, NEW c, NEW h, NEW n, Holds(m, c, h, n), n # 0, NEW g, g = Pos(c, h, 1)
    PROVE  /\ h \in 0 .. c - 1 /\ m.slots[h] = RowOf(m, c, h, n)[1]
           /\ Holds(MovedOut(m, h), c, g, n - 1)
           /\ RowOf(MovedOut(m, h), c, g, n - 1) = Promised!Without(RowOf(m, c, h, n), 1)
  <1> DEFINE p == MovedOut(m, h)
             s == RowOf(m, c, h, n)
             t == Promised!Without(s, 1)
  <1>1. /\ c \in Nat \ {0} /\ h \in 0 .. c - 1 /\ n \in 1 .. c
        /\ m \in Blocks(c) /\ m.initialized \in [0 .. c - 1 -> BOOLEAN]
        /\ \A k \in 0 .. n - 1 : Pos(c, h, k) \in 0 .. c - 1 /\ Pos(c, h, k) \in Window(c, h, n)
    <2>1. c \in Nat /\ n \in 0 .. c /\ c # 0
      BY DEF Holds
    <2>2. /\ c \in Nat \ {0} /\ h \in 0 .. c - 1 /\ n \in 0 .. c
          /\ m \in Blocks(c) /\ m.initialized \in [0 .. c - 1 -> BOOLEAN]
          /\ \A k \in 0 .. n - 1 : Pos(c, h, k) \in 0 .. c - 1 /\ Pos(c, h, k) \in Window(c, h, n)
      BY <2>1, HoldsFacts, Zenon
    <2> QED
      BY <2>1, <2>2
  <1>2. h \notin Window(c, g, n - 1) /\ Window(c, h, n) = Window(c, g, n - 1) \cup {h}
    BY <1>1, WindowShrinks
  <1>3. \A k \in 0 .. n - 2 : Pos(c, g, k) = Pos(c, h, k + 1) /\ Pos(c, h, k + 1) # h
                              /\ Pos(c, h, k + 1) \in 0 .. c - 1
    <2>1. /\ \A k \in 0 .. c : Pos(c, h, k) \in 0 .. c - 1
          /\ \A j, k \in 0 .. c - 1 : Pos(c, h, j) = Pos(c, h, k) => j = k
          /\ Pos(c, h, 0) = h
          /\ \A k \in 0 .. c - 1 : Pos(c, g, k) = Pos(c, h, k + 1)
      <3>1. /\ \A k \in 0 .. c : Pos(c, h, k) \in 0 .. c - 1
            /\ \A j, k \in 0 .. c - 1 : Pos(c, h, j) = Pos(c, h, k) => j = k
            /\ Pos(c, h, 0) = h
        BY <1>1, PosFacts
      <3>2. \A k \in 0 .. c - 1 : Pos(c, Pos(c, h, 1), k) = Pos(c, h, k + 1)
        BY <1>1, PosFacts
      <3> QED
        BY <3>1, <3>2
    <2>2. \A k \in 0 .. n - 2 : k \in 0 .. c - 1 /\ k + 1 \in 0 .. c - 1 /\ k + 1 \in 0 .. c /\ k + 1 # 0
      BY <1>1
    <2>3. 0 \in 0 .. c - 1
      BY <1>1
    <2> QED
      BY <2>1, <2>2, <2>3
  <1>4. g \in 0 .. c - 1 /\ Pos(c, h, 0) = h
    BY <1>1, PosFacts
  <1>5. /\ p \in Blocks(c)
        /\ \A j \in 0 .. c - 1 : j # h => p.slots[j] = m.slots[j]
        /\ copied => p = m
        /\ ~copied => \A j \in 0 .. c - 1 : p.initialized[j] <=> j # h /\ m.initialized[j]
    BY <1>1, TakenIs
  <1> HIDE DEF p
  <1>6. \A k \in 0 .. n - 2 : p.slots[Pos(c, g, k)] = m.slots[Pos(c, h, k + 1)]
    BY <1>3, <1>5
  <1>7. n - 1 \in 0 .. c /\ (n - 1) - 1 = n - 2 /\ \A k \in 0 .. n - 2 : k + 1 \in 0 .. n - 1
    BY <1>1
  <1>8. Holds(p, c, g, n - 1)
    <2>1. \A k \in 0 .. (n - 1) - 1 : p.slots[Pos(c, g, k)] \in Values
      BY <1>6, <1>7 DEF Holds
    <2>2. \A j \in 0 .. c - 1 : p.initialized[j] <=> ~copied /\ j \in Window(c, g, n - 1)
      BY <1>2, <1>5 DEF Holds
    <2> QED
      BY <1>1, <1>4, <1>5, <1>7, <2>1, <2>2 DEF Holds
  <1>9. s \in Seq(Values) /\ Len(s) = n /\ \A k \in 0 .. n - 1 : s[k + 1] = m.slots[Pos(c, h, k)]
    BY RowIs
  <1> HIDE DEF s
  <1>10. /\ t \in Seq(Values) /\ Len(t) = n - 1
         /\ \A j \in 1 .. n - 1 : t[j] = s[j + 1]
    <2>1. 1 \in 1 .. Len(s) /\ \A j \in 1 .. n - 1 : ~(j < 1)
      BY <1>1, <1>9
    <2> QED
      BY <1>9, <2>1, WithoutIs
  <1> HIDE DEF t
  <1>11. \A k \in 0 .. (n - 1) - 1 : p.slots[Pos(c, g, k)] = t[k + 1]
    <2> SUFFICES ASSUME NEW k \in 0 .. n - 2 PROVE p.slots[Pos(c, g, k)] = t[k + 1]
      BY <1>7
    <2>1. k + 1 \in 1 .. n - 1 /\ k + 1 \in 0 .. n - 1
      BY <1>1
    <2> QED
      BY <1>6, <1>9, <1>10, <2>1
  <1>12. RowOf(p, c, g, n - 1) = t
    BY <1>8, <1>10, <1>11, RowsEqual
  <1>13. m.slots[h] = s[1]
    <2>1. 0 \in 0 .. n - 1 /\ 0 + 1 = 1
      BY <1>1
    <2> QED
      BY <1>4, <1>9, <2>1
  <1> QED
    BY <1>1, <1>8, <1>12, <1>13 DEF p, s, t

\* Without its last value, the block holds the row before it.
LEMMA TakeFromBack ==
    ASSUME NEW m, NEW c, NEW h, NEW n, Holds(m, c, h, n), n # 0, NEW i, i = Pos(c, h, n - 1)
    PROVE  /\ i \in 0 .. c - 1 /\ m.slots[i] = RowOf(m, c, h, n)[n]
           /\ Holds(MovedOut(m, i), c, h, n - 1)
           /\ RowOf(MovedOut(m, i), c, h, n - 1) = Promised!Without(RowOf(m, c, h, n), n)
  <1> DEFINE p == MovedOut(m, i)
             s == RowOf(m, c, h, n)
             t == Promised!Without(s, n)
  <1>1. /\ c \in Nat \ {0} /\ h \in 0 .. c - 1 /\ n \in 1 .. c
        /\ m \in Blocks(c) /\ m.initialized \in [0 .. c - 1 -> BOOLEAN]
        /\ \A k \in 0 .. n - 1 : Pos(c, h, k) \in 0 .. c - 1 /\ Pos(c, h, k) \in Window(c, h, n)
    <2>1. c \in Nat /\ n \in 0 .. c /\ c # 0
      BY DEF Holds
    <2>2. /\ c \in Nat \ {0} /\ h \in 0 .. c - 1 /\ n \in 0 .. c
          /\ m \in Blocks(c) /\ m.initialized \in [0 .. c - 1 -> BOOLEAN]
          /\ \A k \in 0 .. n - 1 : Pos(c, h, k) \in 0 .. c - 1 /\ Pos(c, h, k) \in Window(c, h, n)
      BY <2>1, HoldsFacts, Zenon
    <2> QED
      BY <2>1, <2>2
  <1>2. i \notin Window(c, h, n - 1) /\ Window(c, h, n) = Window(c, h, n - 1) \cup {i}
    <2> DEFINE q == n - 1
    <2>1. q \in 0 .. c - 1 /\ q + 1 = n
      BY <1>1
    <2> HIDE DEF q
    <2>2. Pos(c, h, q) \notin Window(c, h, q) /\ Window(c, h, q + 1) = Window(c, h, q) \cup {Pos(c, h, q)}
      BY <1>1, <2>1, WindowGrows
    <2> QED
      BY <2>1, <2>2 DEF q
  <1>3. i \in 0 .. c - 1
    <2>1. n - 1 \in 0 .. n - 1
      BY <1>1
    <2> QED
      BY <1>1, <2>1
  <1>4. \A k \in 0 .. n - 2 : Pos(c, h, k) # i /\ Pos(c, h, k) \in 0 .. c - 1 /\ k \in 0 .. n - 1
    <2>1. \A k \in 0 .. n - 2 : k \in 0 .. n - 1
      BY <1>1
    <2>2. (n - 1) - 1 = n - 2
      BY <1>1
    <2> QED
      BY <1>1, <1>2, <2>1, <2>2 DEF Window
  <1>5. /\ p \in Blocks(c)
        /\ \A j \in 0 .. c - 1 : j # i => p.slots[j] = m.slots[j]
        /\ copied => p = m
        /\ ~copied => \A j \in 0 .. c - 1 : p.initialized[j] <=> j # i /\ m.initialized[j]
    <2>1. ASSUME NEW j \in 0 .. c - 1
          PROVE  /\ MovedOut(m, j) \in Blocks(c)
                 /\ \A l \in 0 .. c - 1 : l # j => MovedOut(m, j).slots[l] = m.slots[l]
                 /\ copied => MovedOut(m, j) = m
                 /\ ~copied => \A l \in 0 .. c - 1 :
                       MovedOut(m, j).initialized[l] <=> l # j /\ m.initialized[l]
      BY <1>1, TakenIs
    <2> QED
      BY <1>3, <2>1
  <1> HIDE DEF p
  <1>6. \A k \in 0 .. n - 2 : p.slots[Pos(c, h, k)] = m.slots[Pos(c, h, k)]
    BY <1>4, <1>5
  <1>7. n - 1 \in 0 .. c /\ (n - 1) - 1 = n - 2
    BY <1>1
  <1>8. Holds(p, c, h, n - 1)
    <2>1. \A k \in 0 .. (n - 1) - 1 : p.slots[Pos(c, h, k)] \in Values
      BY <1>4, <1>6, <1>7 DEF Holds
    <2>2. \A j \in 0 .. c - 1 : p.initialized[j] <=> ~copied /\ j \in Window(c, h, n - 1)
      BY <1>2, <1>5 DEF Holds
    <2> QED
      BY <1>1, <1>5, <1>7, <2>1, <2>2 DEF Holds
  <1>9. s \in Seq(Values) /\ Len(s) = n /\ \A k \in 0 .. n - 1 : s[k + 1] = m.slots[Pos(c, h, k)]
    BY RowIs
  <1> HIDE DEF s
  <1>10. /\ t \in Seq(Values) /\ Len(t) = n - 1
         /\ \A j \in 1 .. n - 1 : t[j] = s[j]
    <2>1. n \in 1 .. Len(s) /\ \A j \in 1 .. n - 1 : j < n
      BY <1>1, <1>9
    <2> QED
      <3>1. t \in Seq(Values) /\ Len(t) = Len(s) - 1
            /\ \A j \in 1 .. Len(s) - 1 : t[j] = IF j < n THEN s[j] ELSE s[j + 1]
        <4>1. ASSUME NEW i0 \in 1 .. Len(s)
              PROVE  /\ Promised!Without(s, i0) \in Seq(Values)
                     /\ Len(Promised!Without(s, i0)) = Len(s) - 1
                     /\ \A j \in 1 .. Len(s) - 1 :
                           Promised!Without(s, i0)[j] = IF j < i0 THEN s[j] ELSE s[j + 1]
          BY <1>9, WithoutIs
        <4> QED
          BY <2>1, <4>1
      <3> QED
        BY <1>9, <2>1, <3>1
  <1> HIDE DEF t
  <1>11. \A k \in 0 .. (n - 1) - 1 : p.slots[Pos(c, h, k)] = t[k + 1]
    <2> SUFFICES ASSUME NEW k \in 0 .. n - 2 PROVE p.slots[Pos(c, h, k)] = t[k + 1]
      BY <1>7
    <2>1. k + 1 \in 1 .. n - 1 /\ k \in 0 .. n - 1
      BY <1>1
    <2> QED
      BY <1>6, <1>9, <1>10, <2>1
  <1>12. RowOf(p, c, h, n - 1) = t
    BY <1>8, <1>10, <1>11, RowsEqual
  <1>13. m.slots[i] = s[n]
    <2>1. n - 1 \in 0 .. n - 1 /\ (n - 1) + 1 = n
      BY <1>1
    <2> QED
      BY <1>9, <2>1
  <1> QED
    BY <1>3, <1>8, <1>12, <1>13 DEF p, s, t

-----------------------------------------------------------------------------
(* Blocks whose values begin in front.                                       *)

\* Of a block whose values begin in its first slot, all that the proofs use.
LEMMA InFront ==
    ASSUME NEW m, NEW c, NEW n
    PROVE  /\ Holds(m, c, 0, n) <=>
                 /\ c \in Nat /\ n \in 0 .. c /\ m \in Blocks(c)
                 /\ \A k \in 0 .. n - 1 : m.slots[k] \in Values
                 /\ \A i \in 0 .. c - 1 : m.initialized[i] <=> ~copied /\ i < n
           /\ Holds(m, c, 0, n) =>
                 /\ RowOf(m, c, 0, n) \in Seq(Values) /\ Len(RowOf(m, c, 0, n)) = n
                 /\ \A k \in 0 .. n - 1 : RowOf(m, c, 0, n)[k + 1] = m.slots[k]
                 /\ \A j \in 1 .. n : RowOf(m, c, 0, n)[j] = m.slots[j - 1]
  <1>1. ASSUME c \in Nat, n \in 0 .. c
        PROVE  /\ \A k \in 0 .. n - 1 : Pos(c, 0, k) = k
               /\ \A i \in 0 .. c - 1 : i \in Window(c, 0, n) <=> i < n
    <2>1. ASSUME NEW k \in 0 .. n - 1 PROVE Pos(c, 0, k) = k
      <3>1. c \in Nat \ {0} /\ 0 \in 0 .. c - 1 /\ k \in 0 .. c - 1
        BY <1>1
      <3> QED
        BY <3>1, PosFacts
    <2>2. ASSUME NEW i \in 0 .. c - 1 PROVE i \in Window(c, 0, n) <=> i < n
      <3>1. i < n <=> i \in 0 .. n - 1
        BY <1>1
      <3>2. \A k \in 0 .. n - 1 : k = i => i \in 0 .. n - 1
        OBVIOUS
      <3> QED
        BY <2>1, <3>1 DEF Window
    <2> QED
      BY <2>1, <2>2
  <1>2. Holds(m, c, 0, n) =>
                 /\ c \in Nat /\ n \in 0 .. c /\ m \in Blocks(c)
                 /\ \A k \in 0 .. n - 1 : m.slots[k] \in Values
                 /\ \A i \in 0 .. c - 1 : m.initialized[i] <=> ~copied /\ i < n
    BY <1>1 DEF Holds
  <1>3. ASSUME c \in Nat, n \in 0 .. c, m \in Blocks(c),
               \A k \in 0 .. n - 1 : m.slots[k] \in Values,
               \A i \in 0 .. c - 1 : m.initialized[i] <=> ~copied /\ i < n
        PROVE  Holds(m, c, 0, n)
    BY <1>1, <1>3 DEF Holds
  <1>4. ASSUME Holds(m, c, 0, n)
        PROVE  /\ RowOf(m, c, 0, n) \in Seq(Values) /\ Len(RowOf(m, c, 0, n)) = n
               /\ \A k \in 0 .. n - 1 : RowOf(m, c, 0, n)[k + 1] = m.slots[k]
               /\ \A j \in 1 .. n : RowOf(m, c, 0, n)[j] = m.slots[j - 1]
    <2> DEFINE s == RowOf(m, c, 0, n)
    <2>1. /\ s \in Seq(Values) /\ Len(s) = n
          /\ \A k \in 0 .. n - 1 : s[k + 1] = m.slots[Pos(c, 0, k)]
      BY <1>4, RowIs
    <2>2. c \in Nat /\ n \in 0 .. c
      BY <1>4 DEF Holds
    <2>3. \A k \in 0 .. n - 1 : s[k + 1] = m.slots[k]
      BY <1>1, <2>1, <2>2
    <2> HIDE DEF s
    <2>4. ASSUME NEW j \in 1 .. n PROVE s[j] = m.slots[j - 1]
      <3>1. j - 1 \in 0 .. n - 1 /\ (j - 1) + 1 = j
        BY <2>2
      <3> QED
        BY <2>3, <3>1
    <2> QED
      BY <2>1, <2>3, <2>4 DEF s
  <1> QED
    BY <1>2, <1>3, <1>4

\* A slot is overwritten: the value it held is destroyed, unless it is copied.
LEMMA Replaced ==
    ASSUME NEW m, NEW c, NEW n, Holds(m, c, 0, n), NEW i \in 0 .. n - 1, NEW v \in Values
    PROVE  /\ Holds(Put(m, i, v), c, 0, n)
           /\ RowOf(Put(m, i, v), c, 0, n) = [RowOf(m, c, 0, n) EXCEPT ![i + 1] = v]
           /\ i + 1 \in DOMAIN RowOf(m, c, 0, n)
           /\ Overwritten(m, i) = IF copied THEN {} ELSE {RowOf(m, c, 0, n)[i + 1]}
  <1> DEFINE p == Put(m, i, v)
             s == RowOf(m, c, 0, n)
             t == RowOf(p, c, 0, n)
  <1>1. /\ c \in Nat /\ n \in 0 .. c /\ m \in Blocks(c)
        /\ \A k \in 0 .. n - 1 : m.slots[k] \in Values
        /\ \A j \in 0 .. c - 1 : m.initialized[j] <=> ~copied /\ j < n
    BY InFront
  <1>2. s \in Seq(Values) /\ Len(s) = n /\ \A k \in 0 .. n - 1 : s[k + 1] = m.slots[k]
        /\ \A j \in 1 .. n : s[j] = m.slots[j - 1]
    BY InFront
  <1>3. i \in 0 .. c - 1
    BY <1>1
  <1>4. /\ p \in Blocks(c)
        /\ \A j \in 0 .. c - 1 : p.slots[j] = IF j = i THEN v ELSE m.slots[j]
        /\ copied => p.initialized = m.initialized
        /\ ~copied => \A j \in 0 .. c - 1 : p.initialized[j] <=> j = i \/ m.initialized[j]
    BY <1>1, <1>3, PutIs
  <1> HIDE DEF p
  <1>5. \A k \in 0 .. n - 1 : p.slots[k] \in Values
    BY <1>1, <1>4
  <1>6. \A j \in 0 .. c - 1 : p.initialized[j] <=> ~copied /\ j < n
    <2>1. i < n
      BY <1>1
    <2> QED
      BY <1>1, <1>4, <2>1
  <1>7. Holds(p, c, 0, n)
    BY <1>1, <1>4, <1>5, <1>6, InFront
  <1>8. t \in Seq(Values) /\ Len(t) = n /\ \A j \in 1 .. n : t[j] = p.slots[j - 1]
    BY <1>7, InFront
  <1> HIDE DEF s, t
  <1>9. i + 1 \in 1 .. n
    BY <1>1
  <1>10. t = [s EXCEPT ![i + 1] = v]
    <2> DEFINE e == [s EXCEPT ![i + 1] = v]
    <2>1. e \in Seq(Values) /\ Len(e) = n
      BY <1>2, <1>9
    <2>2. \A j \in 1 .. n : e[j] = IF j = i + 1 THEN v ELSE s[j]
      BY <1>2
    <2> HIDE DEF e
    <2>3. ASSUME NEW j \in 1 .. n PROVE t[j] = e[j]
      <3>1. j - 1 \in 0 .. c - 1 /\ (j - 1 = i <=> j = i + 1)
        BY <1>1
      <3> QED
        BY <1>2, <1>4, <1>8, <2>2, <3>1
    <2> QED
      BY <1>8, <2>1, <2>3, SeqEqual DEF e
  <1>11. Overwritten(m, i) = IF copied THEN {} ELSE {s[i + 1]}
    <2>1. m.initialized[i] <=> ~copied
      BY <1>1, <1>3
    <2> QED
      BY <1>2, <2>1 DEF Overwritten
  <1> QED
    BY <1>2, <1>7, <1>9, <1>10, <1>11 DEF p, s, t

\* removeAt closes the gap, values and bytes alike.
LEMMA GapCloses ==
    ASSUME NEW m, NEW c, Holds(m, c, 0, length), NEW i \in 0 .. length - 1,
           NEW q, q = IF copied THEN m ELSE MovedOut(m, i)
    PROVE  /\ Holds(Closed(q, i), c, 0, length - 1)
           /\ RowOf(Closed(q, i), c, 0, length - 1) = Promised!Without(RowOf(m, c, 0, length), i + 1)
           /\ m.slots[i] = RowOf(m, c, 0, length)[i + 1]
           /\ i + 1 \in 1 .. length /\ (~copied => m.initialized[i])
  <1> DEFINE p == Closed(q, i)
             s == RowOf(m, c, 0, length)
             t == RowOf(p, c, 0, length - 1)
             w == Promised!Without(s, i + 1)
  <1>1. /\ c \in Nat /\ length \in 1 .. c /\ m \in Blocks(c)
        /\ \A k \in 0 .. length - 1 : m.slots[k] \in Values
        /\ \A j \in 0 .. c - 1 : m.initialized[j] <=> ~copied /\ j < length
    BY InFront
  <1>2. s \in Seq(Values) /\ Len(s) = length /\ \A k \in 0 .. length - 1 : s[k + 1] = m.slots[k]
        /\ \A j \in 1 .. length : s[j] = m.slots[j - 1]
    BY InFront
  <1>3. i \in 0 .. c - 1 /\ i < length
    BY <1>1
  <1>4. /\ q \in Blocks(c)
        /\ \A j \in 0 .. c - 1 : j # i => q.slots[j] = m.slots[j]
        /\ copied => q = m
        /\ ~copied => \A j \in 0 .. c - 1 : q.initialized[j] <=> j # i /\ m.initialized[j]
    <2>1. /\ MovedOut(m, i) \in Blocks(c)
          /\ \A j \in 0 .. c - 1 : j # i => MovedOut(m, i).slots[j] = m.slots[j]
          /\ copied => MovedOut(m, i) = m
          /\ ~copied => \A j \in 0 .. c - 1 :
                MovedOut(m, i).initialized[j] <=> j # i /\ m.initialized[j]
      BY <1>1, <1>3, TakenIs
    <2> QED
      BY <1>1, <2>1
  <1>5. q.slots \in [0 .. c - 1 -> Values \cup {Junk}] /\ q.initialized \in [0 .. c - 1 -> BOOLEAN]
    BY <1>4 DEF Blocks
  <1> DEFINE last == length - 1
             moved(f) == [j \in 0 .. c - 1 |-> IF i <= j /\ j < last THEN f[j + 1] ELSE f[j]]
  <1>6. p = [slots |-> IF copied THEN moved(q.slots) ELSE [moved(q.slots) EXCEPT ![last] = Junk],
             initialized |-> [moved(q.initialized) EXCEPT ![last] = FALSE]]
    <2>1. DOMAIN q.slots = 0 .. c - 1 /\ DOMAIN q.initialized = 0 .. c - 1
      BY <1>5
    <2> QED
      BY <2>1 DEF Closed
  <1>7. last \in 0 .. c - 1 /\ \A j \in 0 .. c - 1 : j < last => j + 1 \in 0 .. c - 1
    BY <1>1
  <1>8. /\ moved(q.slots) \in [0 .. c - 1 -> Values \cup {Junk}]
        /\ moved(q.initialized) \in [0 .. c - 1 -> BOOLEAN]
    BY <1>5, <1>7
  <1> HIDE DEF p
  <1>9. p \in Blocks(c)
    <2>1. /\ [moved(q.slots) EXCEPT ![last] = Junk] \in [0 .. c - 1 -> Values \cup {Junk}]
          /\ [moved(q.initialized) EXCEPT ![last] = FALSE] \in [0 .. c - 1 -> BOOLEAN]
      BY <1>8
    <2> QED
      BY <1>6, <1>8, <2>1 DEF Blocks
  <1>10. \A j \in 0 .. last - 1 : p.slots[j] = IF j < i THEN m.slots[j] ELSE m.slots[j + 1]
    <2> SUFFICES ASSUME NEW j \in 0 .. last - 1
                 PROVE  p.slots[j] = IF j < i THEN m.slots[j] ELSE m.slots[j + 1]
      OBVIOUS
    <2>1. j \in 0 .. c - 1 /\ j + 1 \in 0 .. c - 1 /\ j < last /\ j # last
      BY <1>1
    <2>2. p.slots[j] = IF i <= j THEN q.slots[j + 1] ELSE q.slots[j]
      BY <1>6, <1>8, <2>1
    <2>3. i <= j => j + 1 # i
      BY <1>3
    <2> QED
      BY <1>3, <1>4, <2>1, <2>2, <2>3
  <1>11. \A j \in 0 .. c - 1 : p.initialized[j] <=> ~copied /\ j < last
    <2> SUFFICES ASSUME NEW j \in 0 .. c - 1 PROVE p.initialized[j] <=> ~copied /\ j < last
      OBVIOUS
    <2>1. p.initialized[j] = IF j = last THEN FALSE
                             ELSE IF i <= j /\ j < last THEN q.initialized[j + 1] ELSE q.initialized[j]
      BY <1>6, <1>8
    <2>2. \A k \in 0 .. c - 1 : q.initialized[k] <=> ~copied /\ k < length /\ k # i
      BY <1>1, <1>3, <1>4
    <2>3. CASE j = last
      BY <2>1, <2>3
    <2>4. CASE i <= j /\ j < last
      <3>1. j + 1 \in 0 .. c - 1
        BY <1>7, <2>4
      <3>2. j + 1 < length /\ j + 1 # i /\ j # last
        BY <1>1, <1>3, <2>4
      <3> QED
        BY <2>1, <2>2, <2>4, <3>1, <3>2
    <2>5. CASE j # last /\ ~(i <= j /\ j < last)
      <3>1. (j < last <=> j < length /\ j # i)
        BY <1>1, <1>3, <2>5
      <3> QED
        BY <2>1, <2>2, <2>5, <3>1
    <2> QED
      BY <2>3, <2>4, <2>5
  <1>12. \A k \in 0 .. last - 1 : p.slots[k] \in Values
    <2> SUFFICES ASSUME NEW k \in 0 .. last - 1 PROVE p.slots[k] \in Values
      OBVIOUS
    <2>1. k \in 0 .. length - 1 /\ k + 1 \in 0 .. length - 1
      BY <1>1
    <2> QED
      BY <1>1, <1>10, <2>1
  <1>13. Holds(p, c, 0, last)
    <2>1. last \in 0 .. c
      BY <1>1
    <2> QED
      BY <1>1, <1>9, <1>11, <1>12, <2>1, InFront
  <1>14. t \in Seq(Values) /\ Len(t) = last /\ \A j \in 1 .. last : t[j] = p.slots[j - 1]
    BY <1>13, InFront
  <1> HIDE DEF s, t
  <1>15. i + 1 \in 1 .. length
    BY <1>1
  <1>16. /\ w \in Seq(Values) /\ Len(w) = last
         /\ \A j \in 1 .. last : w[j] = IF j < i + 1 THEN s[j] ELSE s[j + 1]
    <2>1. ASSUME NEW k \in 1 .. Len(s)
          PROVE  /\ Promised!Without(s, k) \in Seq(Values)
                 /\ Len(Promised!Without(s, k)) = Len(s) - 1
                 /\ \A j \in 1 .. Len(s) - 1 :
                       Promised!Without(s, k)[j] = IF j < k THEN s[j] ELSE s[j + 1]
      BY <1>2, WithoutIs
    <2> QED
      BY <1>2, <1>15, <2>1
  <1> HIDE DEF w
  <1>17. ASSUME NEW j \in 1 .. last PROVE t[j] = w[j]
    <2>1. j - 1 \in 0 .. last - 1 /\ j \in 1 .. length /\ j + 1 \in 1 .. length
          /\ (j - 1) + 1 = j /\ (j + 1) - 1 = j /\ (j - 1 < i <=> j < i + 1)
      BY <1>1, <1>3
    <2>2. t[j] = IF j - 1 < i THEN m.slots[j - 1] ELSE m.slots[j]
      BY <1>10, <1>14, <2>1
    <2>3. s[j] = m.slots[j - 1] /\ s[j + 1] = m.slots[j]
      BY <1>2, <2>1
    <2> QED
      BY <1>16, <2>1, <2>2, <2>3
  <1>18. t = w
    BY <1>14, <1>16, <1>17, SeqEqual
  <1> QED
    BY <1>1, <1>2, <1>3, <1>13, <1>15, <1>18 DEF p, s, t, w

\* A value leaves its place in front and nothing moves up, as takeAt has it.
LEMMA NothingHeld ==
    ASSUME NEW m, NEW c, NEW h, Holds(m, c, h, 0)
    PROVE  /\ \A g \in Nat : (c = 0 => g = 0) /\ (c # 0 => g < c) => Holds(m, c, g, 0)
           /\ RowOf(m, c, h, 0) = <<>>
  <1>1. \A g : Window(c, g, 0) = {}
    BY DEF Window
  <1>2. \A g \in Nat : (c = 0 => g = 0) /\ (c # 0 => g < c) => Holds(m, c, g, 0)
    BY <1>1 DEF Holds
  <1>3. RowOf(m, c, h, 0) \in Seq(Values) /\ Len(RowOf(m, c, h, 0)) = 0
    BY RowIs
  <1> QED
    BY <1>2, <1>3, EmptySeq

\* All that a block owns is destroyed.
LEMMA EmptiedIs ==
    ASSUME NEW m, NEW c, NEW h, NEW n, Holds(m, c, h, n),
           NEW k \in 0 .. c, \A i \in 0 .. c - 1 : m.initialized[i] => i < k
    PROVE  /\ Holds(Emptied(m, k), c, 0, 0)
           /\ Destroyed(m, k) = IF copied THEN {} ELSE Range(RowOf(m, c, h, n))
  <1> DEFINE p == Emptied(m, k)
             s == RowOf(m, c, h, n)
  <1>1. c \in Nat /\ m \in Blocks(c) /\ n \in 0 .. c
        /\ \A i \in 0 .. c - 1 : m.initialized[i] <=> ~copied /\ i \in Window(c, h, n)
    BY DEF Holds
  <1>2. m.slots \in [0 .. c - 1 -> Values \cup {Junk}] /\ m.initialized \in [0 .. c - 1 -> BOOLEAN]
    BY <1>1 DEF Blocks
  <1>3. p = [slots |-> [i \in 0 .. c - 1 |-> IF i \in Initialized(m, k) THEN Junk ELSE m.slots[i]],
             initialized |-> [i \in 0 .. c - 1 |-> m.initialized[i] /\ i >= k]]
    BY <1>2 DEF Emptied
  <1>4. p \in Blocks(c)
    <2>0. p.slots = [i \in 0 .. c - 1 |-> IF i \in Initialized(m, k) THEN Junk ELSE m.slots[i]]
      BY <1>3
    <2>1. p.slots \in [0 .. c - 1 -> Values \cup {Junk}]
      <3>1. \A i \in 0 .. c - 1 :
               (IF i \in Initialized(m, k) THEN Junk ELSE m.slots[i]) \in Values \cup {Junk}
        BY <1>2
      <3> QED
        BY <2>0, <3>1, Zenon
    <2>2. \A i \in 0 .. c - 1 : (m.initialized[i] /\ i >= k) \in BOOLEAN
      OBVIOUS
    <2>3. p.initialized = [i \in 0 .. c - 1 |-> m.initialized[i] /\ i >= k]
      BY <1>3
    <2>4. p.initialized \in [0 .. c - 1 -> BOOLEAN]
      BY <2>2, <2>3, Zenon
    <2> QED
      BY <1>3, <2>1, <2>4 DEF Blocks
  <1>5. \A i \in 0 .. c - 1 : ~p.initialized[i]
    <2>0. p.initialized = [i \in 0 .. c - 1 |-> m.initialized[i] /\ i >= k]
      BY <1>3
    <2>1. \A i \in 0 .. c - 1 : p.initialized[i] = (m.initialized[i] /\ i >= k)
      BY <2>0, Zenon
    <2>2. \A i \in 0 .. c - 1 : i < k => ~(i >= k)
      BY <1>1
    <2> QED
      BY <2>1, <2>2
  <1>6. Holds(p, c, 0, 0)
    <2>1. 0 \in 0 .. c /\ 0 .. 0 - 1 = {} /\ \A i \in 0 .. c - 1 : ~(i < 0)
      BY <1>1
    <2> QED
      BY <1>1, <1>4, <1>5, <2>1, InFront
  <1>7. s \in Seq(Values) /\ Len(s) = n /\ \A j \in 0 .. n - 1 : s[j + 1] = m.slots[Pos(c, h, j)]
    BY RowIs
  <1> HIDE DEF s
  <1>8. Initialized(m, k) = IF copied THEN {} ELSE Window(c, h, n)
    <2>1. \A i \in 0 .. c - 1 : i < k => i \in 0 .. k - 1
      BY <1>1
    <2>2. \A i \in 0 .. k - 1 : i \in 0 .. c - 1
      BY <1>1
    <2>3. Window(c, h, n) \subseteq 0 .. c - 1
      <3>1. CASE c = 0
        BY <1>1, <3>1 DEF Window
      <3>2. CASE c # 0
        BY <3>2, HoldsFacts
      <3> QED
        BY <3>1, <3>2
    <2> QED
      BY <1>1, <2>1, <2>2, <2>3 DEF Initialized
  <1>9. ~copied => Destroyed(m, k) = Range(s)
    <2> SUFFICES ASSUME ~copied PROVE Destroyed(m, k) = Range(s)
      OBVIOUS
    <2>1. Destroyed(m, k) = {m.slots[Pos(c, h, j)] : j \in 0 .. n - 1}
      BY <1>8 DEF Destroyed, Window
    <2>2. \A j \in 1 .. n : j - 1 \in 0 .. n - 1 /\ (j - 1) + 1 = j
      BY <1>1
    <2>3. \A j \in 0 .. n - 1 : j + 1 \in 1 .. n
      BY <1>1
    <2>4. Range(s) = {s[j] : j \in 1 .. n}
      <3>1. DOMAIN s = 1 .. n
        BY <1>7, LenProperties
      <3> QED
        BY <3>1, Zenon DEF Range
    <2>5. ASSUME NEW j \in 0 .. n - 1 PROVE m.slots[Pos(c, h, j)] \in Range(s)
      BY <1>7, <2>3, <2>4
    <2>6. ASSUME NEW j \in 1 .. n PROVE s[j] \in Destroyed(m, k)
      <3>1. s[(j - 1) + 1] = m.slots[Pos(c, h, j - 1)]
        BY <1>7, <2>2
      <3> QED
        BY <2>1, <2>2, <3>1
    <2> QED
      BY <2>1, <2>4, <2>5, <2>6
  <1> QED
    BY <1>6, <1>8, <1>9 DEF Destroyed, p, s

\* reserve and shrinkToFit move the values to the front of another block.
LEMMA RehousedIs ==
    ASSUME Holds(memory, capacity, head, length), NEW n \in Nat, length <= n
    PROVE  /\ Holds(Rehoused(n), n, 0, length)
           /\ RowOf(Rehoused(n), n, 0, length) = RowOf(memory, capacity, head, length)
  <1> DEFINE p == Rehoused(n)
             s == RowOf(memory, capacity, head, length)
             t == RowOf(p, n, 0, length)
  <1>1. length \in Nat
    BY DEF Holds
  <1>2. s \in Seq(Values) /\ Len(s) = length
        /\ \A j \in 0 .. length - 1 : s[j + 1] = memory.slots[Pos(capacity, head, j)]
    BY RowIs
  <1>3. \A i \in 0 .. length - 1 : memory.slots[Pos(capacity, head, i)] \in Values
    BY DEF Holds
  <1>4. p = [slots |-> [i \in 0 .. n - 1 |-> IF i < length THEN memory.slots[Pos(capacity, head, i)] ELSE Junk],
             initialized |-> [i \in 0 .. n - 1 |-> i < length /\ ~copied]]
    BY DEF Rehoused, Slot, Pos
  <1> HIDE DEF p, s
  <1>5. \A i \in 0 .. n - 1 : i < length => i \in 0 .. length - 1
    BY <1>1
  <1>6. p \in Blocks(n)
    <2>1. p.slots \in [0 .. n - 1 -> Values \cup {Junk}]
      BY <1>3, <1>4, <1>5
    <2>2. p.initialized \in [0 .. n - 1 -> BOOLEAN]
      BY <1>4
    <2> QED
      BY <1>4, <2>1, <2>2 DEF Blocks
  <1>7. \A i \in 0 .. length - 1 : i \in 0 .. n - 1 /\ i < length
    BY <1>1
  <1>8. \A i \in 0 .. length - 1 : p.slots[i] = memory.slots[Pos(capacity, head, i)]
    BY <1>4, <1>7
  <1>9. Holds(p, n, 0, length)
    <2>1. \A i \in 0 .. n - 1 : p.initialized[i] <=> ~copied /\ i < length
      BY <1>4
    <2>2. length \in 0 .. n
      BY <1>1
    <2> QED
      BY <1>3, <1>6, <1>8, <2>1, <2>2, InFront
  <1>10. t \in Seq(Values) /\ Len(t) = length /\ \A k \in 0 .. length - 1 : t[k + 1] = p.slots[k]
    BY <1>9, InFront
  <1> HIDE DEF t
  <1>11. ASSUME NEW j \in 1 .. length PROVE t[j] = s[j]
    <2>1. j - 1 \in 0 .. length - 1 /\ (j - 1) + 1 = j
      BY <1>1
    <2>2. t[j] = p.slots[j - 1] /\ s[j] = memory.slots[Pos(capacity, head, j - 1)]
      BY <1>2, <1>10, <2>1
    <2> QED
      BY <1>8, <2>1, <2>2
  <1>12. t = s
    BY <1>2, <1>10, <1>11, SeqEqual
  <1> QED
    BY <1>9, <1>12 DEF p, s, t

-----------------------------------------------------------------------------
(* Rows with the same values in another order.                               *)

Permuted(s, t) ==
    /\ Len(s) = Len(t)
    /\ \E f \in Injection(1 .. Len(s), 1 .. Len(s)) : \A i \in 1 .. Len(s) : s[i] = t[f[i]]

\* They have the same values, and each as many times.
LEMMA PermutedSame ==
    ASSUME NEW s \in Seq(Values), NEW t \in Seq(Values), Permuted(s, t)
    PROVE  /\ Range(s) = Range(t)
           /\ IsInjective(t) => IsInjective(s)
           /\ \A v : Promised!Count(s, v) = Promised!Count(t, v)
  <1> DEFINE n == Len(s)
             I == 1 .. n
  <1>1. n \in Nat /\ Len(t) = n /\ DOMAIN s = I /\ DOMAIN t = I
    BY DEF Permuted
  <1>2. PICK f \in Injection(I, I) : \A i \in I : s[i] = t[f[i]]
    BY DEF Permuted
  <1>3. IsFiniteSet(I)
    BY <1>1, FS_Interval
  <1> HIDE DEF I
  <1>4. f \in Surjection(I, I)
    BY <1>3, FS_Injection
  <1>5. f \in [I -> I] /\ (\A i, j \in I : f[i] = f[j] => i = j) /\ \A j \in I : \E i \in I : f[i] = j
    BY <1>4 DEF Injection, Surjection, IsInjective
  <1>6. Range(s) = Range(t)
    <2>1. Range(s) = {s[i] : i \in I} /\ Range(t) = {t[i] : i \in I}
      BY <1>1, Zenon DEF Range
    <2>2. \A i \in I : s[i] \in {t[j] : j \in I}
      BY <1>2, <1>5
    <2>3. \A j \in I : t[j] \in {s[i] : i \in I}
      BY <1>2, <1>5
    <2> QED
      BY <2>1, <2>2, <2>3
  <1>7. IsInjective(t) => IsInjective(s)
    BY <1>1, <1>2, <1>5 DEF IsInjective
  <1>8. ASSUME NEW v PROVE Promised!Count(s, v) = Promised!Count(t, v)
    <2> DEFINE A == {i \in I : s[i] = v}
               B == {i \in I : t[i] = v}
               g == [i \in A |-> f[i]]
    <2>0. Promised!Count(s, v) = Cardinality(A) /\ Promised!Count(t, v) = Cardinality(B)
      <3>1. {i \in DOMAIN s : s[i] = v} = A /\ {i \in DOMAIN t : t[i] = v} = B
        BY <1>1, Zenon
      <3> QED
        BY <3>1, Zenon DEF Promised!Count, Promised!Cardinality, Cardinality
    <2>1. IsFiniteSet(A)
      BY <1>3, FS_Subset
    <2>2. g \in [A -> B]
      BY <1>2, <1>5
    <2>3. \A i, j \in A : g[i] = g[j] => i = j
      BY <1>5
    <2>4. \A j \in B : \E i \in A : g[i] = j
      BY <1>2, <1>5
    <2> HIDE DEF g, A, B
    <2>5. g \in Bijection(A, B)
      BY <2>2, <2>3, <2>4 DEF Bijection, Injection, Surjection, IsInjective
    <2>6. Cardinality(A) = Cardinality(B)
      BY <2>1, <2>5, FS_Bijection DEF ExistsBijection
    <2> QED
      BY <2>0, <2>6
  <1> QED
    BY <1>6, <1>7, <1>8

\* Put in another order twice.
LEMMA PermutedAgain ==
    ASSUME NEW s \in Seq(Values), NEW t \in Seq(Values), NEW u \in Seq(Values),
           Permuted(s, t), Permuted(t, u)
    PROVE  Permuted(s, u)
  <1> DEFINE I == 1 .. Len(s)
  <1>1. Len(t) = Len(s) /\ Len(u) = Len(s)
    BY DEF Permuted
  <1>2. PICK f \in Injection(I, I) : \A i \in I : s[i] = t[f[i]]
    BY DEF Permuted
  <1>3. PICK g \in Injection(I, I) : \A i \in I : t[i] = u[g[i]]
    BY <1>1 DEF Permuted
  <1> DEFINE h == [i \in I |-> g[f[i]]]
  <1> HIDE DEF I
  <1>4. h \in Injection(I, I) /\ \A i \in I : s[i] = u[h[i]]
    BY <1>2, <1>3 DEF Injection, IsInjective
  <1> QED
    BY <1>1, <1>4 DEF Permuted, I

-----------------------------------------------------------------------------
(* Sifting one value of a block along a path.                                *)

\* What was in each slot of the path has moved to the one before, and what was in
\* the first to the last.
Moved(t, s, p, n) ==
    /\ \A i \in 0 .. n - 1 : i \notin Range(p) => t[i] = s[i]
    /\ \A j \in 1 .. Len(p) - 1 : t[p[j]] = s[p[j + 1]]
    /\ t[p[Len(p)]] = s[p[1]]

\* A path in the first n slots that passes none twice.
Passes(p, n) ==
    /\ p \in Seq(0 .. n - 1) /\ Len(p) >= 1
    /\ \A i, j \in 1 .. Len(p) : p[i] = p[j] => i = j

\* A sift moves what is on the path, and nothing else.
LEMMA SiftedIs ==
    ASSUME NEW c \in Nat, NEW s, DOMAIN s = 0 .. c - 1, NEW p, Passes(p, c)
    PROVE  DOMAIN Sifted(s, p) = 0 .. c - 1 /\ Moved(Sifted(s, p), s, p, c)
  <1>0. /\ p \in Seq(0 .. c - 1) /\ Len(p) >= 1 /\ Len(p) \in Nat
        /\ \A i, j \in 1 .. Len(p) : p[i] = p[j] => i = j
    BY LenProperties DEF Passes
  <1> DEFINE at(i) == CHOOSE k \in DOMAIN p : p[k] = i
             from(i) == s[p[IF at(i) = Len(p) THEN 1 ELSE at(i) + 1]]
             t == Sifted(s, p)
  <1>1. t = [i \in 0 .. c - 1 |-> IF i \notin Range(p) THEN s[i] ELSE from(i)]
    BY DEF Sifted
  <1>2. DOMAIN p = 1 .. Len(p) /\ \A j \in 1 .. Len(p) : p[j] \in 0 .. c - 1 /\ p[j] \in Range(p)
    BY <1>0, LenProperties, ElementOfSeq DEF Range
  <1>3. ASSUME NEW j \in 1 .. Len(p) PROVE at(p[j]) = j
    <2>1. j \in DOMAIN p /\ \A k \in DOMAIN p : p[k] = p[j] => k = j
      BY <1>0, <1>2
    <2> QED
      BY <2>1, Zenon
  <1> HIDE DEF at
  <1>4. ASSUME NEW j \in 1 .. Len(p) PROVE from(p[j]) = s[p[IF j = Len(p) THEN 1 ELSE j + 1]]
    BY <1>3
  <1> HIDE DEF from, t
  <1>5. \A j \in 1 .. Len(p) : t[p[j]] = s[p[IF j = Len(p) THEN 1 ELSE j + 1]]
    BY <1>1, <1>2, <1>4
  <1>6. /\ DOMAIN t = 0 .. c - 1
        /\ \A i \in 0 .. c - 1 : i \notin Range(p) => t[i] = s[i]
    BY <1>1
  <1>7. \A j \in 1 .. Len(p) - 1 : j \in 1 .. Len(p) /\ j # Len(p)
    BY <1>0
  <1>8. Len(p) \in 1 .. Len(p)
    BY <1>0
  <1> QED
    BY <1>5, <1>6, <1>7, <1>8 DEF t, Moved

\* A block that holds n values from its start on holds the same ones when they
\* are sifted along a path in them.
LEMMA SiftKeeps ==
    ASSUME NEW m, NEW c, NEW n, Holds(m, c, 0, n), NEW p, Passes(p, n),
           NEW q, q = [m EXCEPT !.slots = Sifted(m.slots, p)]
    PROVE  /\ Holds(q, c, 0, n)
           /\ Permuted(RowOf(q, c, 0, n), RowOf(m, c, 0, n))
           /\ Moved(q.slots, m.slots, p, n)
  <1>0. /\ p \in Seq(0 .. n - 1) /\ Len(p) >= 1 /\ Len(p) \in Nat
        /\ \A i, j \in 1 .. Len(p) : p[i] = p[j] => i = j
    BY LenProperties DEF Passes
  <1>1. /\ c \in Nat /\ n \in 0 .. c /\ m \in Blocks(c)
        /\ \A k \in 0 .. n - 1 : m.slots[k] \in Values
        /\ \A j \in 0 .. c - 1 : m.initialized[j] <=> ~copied /\ j < n
    BY InFront
  <1>2. m.slots \in [0 .. c - 1 -> Values \cup {Junk}] /\ m.initialized \in [0 .. c - 1 -> BOOLEAN]
        /\ DOMAIN m.slots = 0 .. c - 1
        /\ q = [slots |-> Sifted(m.slots, p), initialized |-> m.initialized]
    BY <1>1 DEF Blocks
  <1>3. p \in Seq(0 .. c - 1)
    <2>1. 0 .. n - 1 \subseteq 0 .. c - 1
      BY <1>1
    <2> QED
      BY <1>0, <2>1, SeqMonotonic
  <1>4. /\ DOMAIN q.slots = 0 .. c - 1
        /\ \A i \in 0 .. c - 1 : i \notin Range(p) => q.slots[i] = m.slots[i]
        /\ \A j \in 1 .. Len(p) - 1 : q.slots[p[j]] = m.slots[p[j + 1]]
        /\ q.slots[p[Len(p)]] = m.slots[p[1]]
    <2>1. c \in Nat /\ DOMAIN m.slots = 0 .. c - 1 /\ Passes(p, c)
      BY <1>0, <1>1, <1>2, <1>3 DEF Passes
    <2>2. DOMAIN Sifted(m.slots, p) = 0 .. c - 1 /\ Moved(Sifted(m.slots, p), m.slots, p, c)
      BY <2>1, SiftedIs
    <2>3. q.slots = Sifted(m.slots, p)
      BY <1>2
    <2> QED
      BY <2>2, <2>3 DEF Moved
  <1>5. \A j \in 1 .. Len(p) : p[j] \in 0 .. n - 1
    BY <1>0, ElementOfSeq
  <1>6. \A i \in Range(p) : \E j \in 1 .. Len(p) : p[j] = i
    BY <1>0, LenProperties DEF Range
  <1> DEFINE next(j) == IF j = Len(p) THEN 1 ELSE j + 1
             at == [i \in 0 .. n - 1 |-> IF i \in Range(p) THEN CHOOSE j \in 1 .. Len(p) : p[j] = i ELSE 0]
             go == [i \in 0 .. n - 1 |-> IF i \in Range(p) THEN p[next(at[i])] ELSE i]
  <1>7. \A i \in 0 .. n - 1 : i \in Range(p) => at[i] \in 1 .. Len(p) /\ p[at[i]] = i
    BY <1>6
  <1>8. \A j \in 1 .. Len(p) : next(j) \in 1 .. Len(p)
    BY <1>0
  <1>9. \A j, k \in 1 .. Len(p) : next(j) = next(k) => j = k
    BY <1>0
  <1>10. \A j \in 1 .. Len(p) : q.slots[p[j]] = m.slots[p[next(j)]]
    <2>1. \A j \in 1 .. Len(p) : j # Len(p) => j \in 1 .. Len(p) - 1
      BY <1>0
    <2> QED
      BY <1>4, <2>1
  <1> HIDE DEF next, at
  <1>11. ASSUME NEW i \in 0 .. n - 1
         PROVE  /\ go[i] \in 0 .. n - 1 /\ q.slots[i] = m.slots[go[i]]
                /\ go[i] \in Range(p) <=> i \in Range(p)
    <2>1. i \in 0 .. c - 1
      BY <1>1
    <2>2. CASE i \in Range(p)
      <3>1. next(at[i]) \in 1 .. Len(p) /\ at[i] \in 1 .. Len(p) /\ p[at[i]] = i
            /\ go[i] = p[next(at[i])]
        BY <1>7, <1>8, <2>2
      <3>2. p[next(at[i])] \in Range(p)
        BY <1>0, <3>1, LenProperties DEF Range
      <3> QED
        BY <1>5, <1>10, <2>2, <3>1, <3>2
    <2>3. CASE i \notin Range(p)
      BY <1>4, <2>1, <2>3
    <2> QED
      BY <2>2, <2>3
  <1>12. ASSUME NEW i \in 0 .. n - 1, NEW j \in 0 .. n - 1, go[i] = go[j] PROVE i = j
    <2>1. CASE i \in Range(p)
      <3>1. j \in Range(p)
        BY <1>11, <1>12, <2>1
      <3>2. /\ at[i] \in 1 .. Len(p) /\ p[at[i]] = i /\ go[i] = p[next(at[i])]
            /\ at[j] \in 1 .. Len(p) /\ p[at[j]] = j /\ go[j] = p[next(at[j])]
        BY <1>7, <2>1, <3>1
      <3>3. next(at[i]) = next(at[j])
        BY <1>0, <1>8, <1>12, <3>2
      <3> QED
        BY <1>9, <3>2, <3>3
    <2>2. CASE i \notin Range(p)
      <3>1. j \notin Range(p)
        BY <1>11, <1>12, <2>2
      <3> QED
        BY <1>12, <2>2, <3>1
    <2> QED
      BY <2>1, <2>2
  <1> HIDE DEF go
  <1>13. \A i \in 0 .. c - 1 : q.slots[i] \in Values \cup {Junk}
    <2> SUFFICES ASSUME NEW i \in 0 .. c - 1 PROVE q.slots[i] \in Values \cup {Junk}
      OBVIOUS
    <2>1. CASE i \in 0 .. n - 1
      BY <1>1, <1>11, <2>1
    <2>2. CASE i \notin 0 .. n - 1
      <3>1. i \notin Range(p)
        BY <1>5, <1>6, <2>2
      <3> QED
        BY <1>2, <1>4, <3>1
    <2> QED
      BY <2>1, <2>2
  <1>14. q.slots \in [0 .. c - 1 -> Values \cup {Junk}]
    <2>1. q.slots = [i \in 0 .. c - 1 |-> q.slots[i]]
      BY <1>2, <1>4 DEF Sifted
    <2> QED
      BY <1>13, <2>1, Zenon
  <1>15. Holds(q, c, 0, n)
    <2>1. q \in Blocks(c)
      BY <1>2, <1>14 DEF Blocks
    <2>2. \A k \in 0 .. n - 1 : q.slots[k] \in Values
      BY <1>1, <1>11
    <2> QED
      BY <1>1, <1>2, <2>1, <2>2, InFront
  <1>16. Permuted(RowOf(q, c, 0, n), RowOf(m, c, 0, n))
    <2> DEFINE s == RowOf(q, c, 0, n)
               t == RowOf(m, c, 0, n)
               f == [i \in 1 .. n |-> go[i - 1] + 1]
    <2>1. /\ Len(s) = n /\ Len(t) = n
          /\ \A j \in 1 .. n : s[j] = q.slots[j - 1]
          /\ \A j \in 1 .. n : t[j] = m.slots[j - 1]
      <3>0. ASSUME NEW b, Holds(b, c, 0, n)
            PROVE  /\ Len(RowOf(b, c, 0, n)) = n
                   /\ \A j \in 1 .. n : RowOf(b, c, 0, n)[j] = b.slots[j - 1]
        BY <3>0, InFront
      <3>1. Len(s) = n /\ \A j \in 1 .. n : s[j] = q.slots[j - 1]
        BY <1>15, <3>0
      <3>2. Len(t) = n /\ \A j \in 1 .. n : t[j] = m.slots[j - 1]
        BY InFront
      <3> QED
        BY <3>1, <3>2
    <2> HIDE DEF s, t
    <2>2. \A i \in 1 .. n : i - 1 \in 0 .. n - 1 /\ (i - 1) + 1 = i
      BY <1>1
    <2>3. \A i \in 0 .. n - 1 : i + 1 \in 1 .. n /\ (i + 1) - 1 = i
      BY <1>1
    <2>4. f \in [1 .. n -> 1 .. n]
      BY <1>11, <2>2, <2>3
    <2>5. \A i, j \in 1 .. n : f[i] = f[j] => i = j
      <3> SUFFICES ASSUME NEW i \in 1 .. n, NEW j \in 1 .. n, f[i] = f[j] PROVE i = j
        OBVIOUS
      <3>1. go[i - 1] \in 0 .. n - 1 /\ go[j - 1] \in 0 .. n - 1 /\ go[i - 1] + 1 = go[j - 1] + 1
        BY <1>11, <2>2
      <3>2. go[i - 1] = go[j - 1]
        BY <3>1
      <3>3. i - 1 = j - 1
        BY <1>12, <2>2, <3>2
      <3> QED
        BY <3>3
    <2>6. \A i \in 1 .. n : s[i] = t[f[i]]
      <3> SUFFICES ASSUME NEW i \in 1 .. n PROVE s[i] = t[f[i]]
        OBVIOUS
      <3>1. go[i - 1] \in 0 .. n - 1 /\ f[i] = go[i - 1] + 1 /\ f[i] \in 1 .. n
            /\ f[i] - 1 = go[i - 1]
        BY <1>11, <2>2, <2>3
      <3>2. s[i] = q.slots[i - 1] /\ q.slots[i - 1] = m.slots[go[i - 1]]
        BY <1>11, <2>1, <2>2
      <3>3. t[f[i]] = m.slots[f[i] - 1]
        BY <2>1, <3>1
      <3> QED
        BY <3>1, <3>2, <3>3
    <2> HIDE DEF f
    <2>7. f \in Injection(1 .. n, 1 .. n)
      BY <2>4, <2>5 DEF Injection, IsInjective
    <2>8. Permuted(s, t)
      BY <2>1, <2>6, <2>7 DEF Permuted
    <2> QED
      BY <2>8 DEF s, t
  <1>17. \A i \in 0 .. n - 1 : i \in 0 .. c - 1
    BY <1>1
  <1> QED
    BY <1>4, <1>15, <1>16, <1>17 DEF Moved

\* The slots around one in a heap.
LEMMA AroundIs ==
    /\ \A k \in Nat \ {0} : Parent(k) \in Nat /\ Parent(k) < k
    /\ \A k \in Nat \ {0} : k = 2 * Parent(k) + 1 \/ k = 2 * Parent(k) + 2
    /\ \A k \in Nat : Parent(2 * k + 1) = k /\ Parent(2 * k + 2) = k
  BY DEF Parent

\* A value rises from slot i while it is less than the one above.
LEMMA RisesIs ==
    ASSUME NEW s, NEW v, NEW i \in Nat, NEW p, p = Rises(s, v, i)
    PROVE  /\ p \in Seq(0 .. i) /\ Len(p) >= 1 /\ p[1] = i
           /\ \A j \in 1 .. Len(p) - 1 :
                 p[j] # 0 /\ Less(v, s[Parent(p[j])]) /\ p[j + 1] = Parent(p[j])
           /\ p[Len(p)] = 0 \/ ~Less(v, s[Parent(p[Len(p)])])
           /\ \A a, b \in 1 .. Len(p) : a < b => p[b] < p[a]
  <1> DEFINE D == 0 .. i
             stop == {k \in D : k = 0 \/ ~Less(v, s[Parent(k)])}
             onward == [k \in D \ stop |-> Parent(k)]
             left == [k \in D |-> k]
  <1>1. \A k \in D : k # 0 => Parent(k) \in D /\ Parent(k) < k
    BY AroundIs
  <1>2. Leads(D, stop, onward, left, i)
    BY <1>1 DEF Leads
  <1>3. \E f : f = [k \in D |-> IF k \in stop THEN <<k>> ELSE <<k>> \o f[onward[k]]]
    <2> HIDE DEF D, stop, onward, left
    <2> QED
      BY <1>2, PathsExist
  <1>4. \A f : [k \in D |-> IF k \in stop THEN <<k>> ELSE <<k>> \o f[onward[k]]]
             = [k \in D |-> IF k = 0 \/ ~Less(v, s[Parent(k)]) THEN <<k>> ELSE <<k>> \o f[Parent(k)]]
    <2> SUFFICES ASSUME NEW f, NEW k \in D
                 PROVE  (IF k \in stop THEN <<k>> ELSE <<k>> \o f[onward[k]])
                      = (IF k = 0 \/ ~Less(v, s[Parent(k)]) THEN <<k>> ELSE <<k>> \o f[Parent(k)])
      BY Zenon
    <2> HIDE DEF D
    <2> QED
      BY Zenon
  <1>5. \E g : /\ g = [k \in D |-> IF k = 0 \/ ~Less(v, s[Parent(k)]) THEN <<k>>
                                   ELSE <<k>> \o g[Parent(k)]]
               /\ Rises(s, v, i) = g[i]
    BY <1>3, <1>4, Zenon DEF Rises
  <1>6. PICK g : /\ g = [k \in D |-> IF k \in stop THEN <<k>> ELSE <<k>> \o g[onward[k]]]
                 /\ Rises(s, v, i) = g[i]
    BY <1>4, <1>5, Zenon
  <1>7. IsPath(p, i, D, stop, onward, left)
    <2>1. i \in D
      OBVIOUS
    <2> HIDE DEF D, stop, onward, left
    <2>2. ASSUME NEW d \in D PROVE IsPath(g[d], d, D, stop, onward, left)
      BY <1>2, <1>6, PathsLead
    <2>3. p = g[i]
      BY <1>6
    <2> QED
      BY <2>1, <2>2, <2>3, Zenon
  <1>8. /\ p \in Seq(D) /\ Len(p) \in Nat /\ Len(p) >= 1 /\ p[1] = i
        /\ \A j \in 1 .. Len(p) - 1 : p[j] \notin stop /\ p[j + 1] = onward[p[j]]
        /\ p[Len(p)] \in stop
        /\ \A a, b \in 1 .. Len(p) : a < b => left[p[b]] < left[p[a]]
    <2> HIDE DEF D, stop, onward, left
    <2> QED
      BY <1>7, LenProperties DEF IsPath
  <1>9. \A j \in 1 .. Len(p) : p[j] \in D
    BY <1>8, ElementOfSeq
  <1>10. \A a, b \in 1 .. Len(p) : a < b => p[b] < p[a]
    BY <1>8, <1>9
  <1>11. ASSUME NEW j \in 1 .. Len(p) - 1
         PROVE  p[j] # 0 /\ Less(v, s[Parent(p[j])]) /\ p[j + 1] = Parent(p[j])
    <2>1. j \in 1 .. Len(p)
      BY <1>8
    <2> QED
      BY <1>8, <1>9, <2>1
  <1> QED
    BY <1>8, <1>10, <1>11

\* The lesser of the slots under k.
Child(s, k, n) == IF 2 * k + 2 < n /\ Less(s[2 * k + 2], s[2 * k + 1]) THEN 2 * k + 2 ELSE 2 * k + 1

\* A value sinks from the root while a lesser one is under it.
LEMMA SinksIs ==
    ASSUME NEW s, NEW v, NEW n \in Nat \ {0}, NEW p, p = Sinks(s, v, n)
    PROVE  /\ p \in Seq(0 .. n - 1) /\ Len(p) >= 1 /\ p[1] = 0
           /\ \A j \in 1 .. Len(p) - 1 :
                 /\ 2 * p[j] + 1 < n /\ Less(s[Child(s, p[j], n)], v)
                 /\ p[j + 1] = Child(s, p[j], n)
           /\ 2 * p[Len(p)] + 1 >= n \/ ~Less(s[Child(s, p[Len(p)], n)], v)
           /\ \A a, b \in 1 .. Len(p) : a < b => p[a] < p[b]
  <1> DEFINE D == 0 .. n
             ends(k) == 2 * k + 1 >= n \/ ~Less(s[Child(s, k, n)], v)
             stop == {k \in D : ends(k)}
             onward == [k \in D \ stop |-> Child(s, k, n)]
             left == [k \in D |-> n - k]
  <1>1. \A k \in D : ~(2 * k + 1 >= n) =>
           Child(s, k, n) \in D /\ k < Child(s, k, n) /\ Child(s, k, n) < n
    BY DEF Child
  <1>2. Leads(D, stop, onward, left, n)
    <2>1. \A k \in D \ stop : onward[k] \in D /\ k < onward[k]
      BY <1>1
    <2>2. stop \subseteq D /\ onward \in [D \ stop -> D] /\ left \in [D -> 0 .. n]
      BY <1>1
    <2>3. \A k \in D \ stop : left[onward[k]] < left[k]
      BY <2>1
    <2> HIDE DEF stop, onward, left
    <2> QED
      BY <2>2, <2>3 DEF Leads
  <1>3. \E f : f = [k \in D |-> IF k \in stop THEN <<k>> ELSE <<k>> \o f[onward[k]]]
    <2> HIDE DEF D, stop, onward, left
    <2> QED
      BY <1>2, PathsExist
  <1>4. \A f : [k \in D |-> IF k \in stop THEN <<k>> ELSE <<k>> \o f[onward[k]]]
             = [k \in D |-> IF ends(k) THEN <<k>> ELSE <<k>> \o f[Child(s, k, n)]]
    <2> SUFFICES ASSUME NEW f, NEW k \in D
                 PROVE  (IF k \in stop THEN <<k>> ELSE <<k>> \o f[onward[k]])
                      = (IF ends(k) THEN <<k>> ELSE <<k>> \o f[Child(s, k, n)])
      BY Zenon
    <2> HIDE DEF D, ends
    <2> QED
      BY Zenon
  <1>5. \E g : /\ g = [k \in D |-> IF ends(k) THEN <<k>> ELSE <<k>> \o g[Child(s, k, n)]]
               /\ Sinks(s, v, n) = g[0]
    BY <1>3, <1>4, ZenonT(30) DEF Sinks, Child
  <1>6. PICK g : /\ g = [k \in D |-> IF k \in stop THEN <<k>> ELSE <<k>> \o g[onward[k]]]
                 /\ Sinks(s, v, n) = g[0]
    BY <1>4, <1>5, Zenon
  <1>7. IsPath(p, 0, D, stop, onward, left)
    <2>1. 0 \in D
      OBVIOUS
    <2> HIDE DEF D, stop, onward, left
    <2>2. ASSUME NEW d \in D PROVE IsPath(g[d], d, D, stop, onward, left)
      BY <1>2, <1>6, PathsLead
    <2>3. p = g[0]
      BY <1>6
    <2> QED
      BY <2>1, <2>2, <2>3, Zenon
  <1>8. /\ p \in Seq(D) /\ Len(p) \in Nat /\ Len(p) >= 1 /\ p[1] = 0
        /\ \A j \in 1 .. Len(p) - 1 : p[j] \notin stop /\ p[j + 1] = onward[p[j]]
        /\ p[Len(p)] \in stop
        /\ \A a, b \in 1 .. Len(p) : a < b => left[p[b]] < left[p[a]]
    <2> HIDE DEF D, stop, onward, left
    <2> QED
      BY <1>7, LenProperties DEF IsPath
  <1>9. \A j \in 1 .. Len(p) : p[j] \in D
    BY <1>8, ElementOfSeq
  <1>10. ASSUME NEW a \in 1 .. Len(p), NEW b \in 1 .. Len(p), a < b PROVE p[a] < p[b]
    <2>1. p[a] \in 0 .. n /\ p[b] \in 0 .. n /\ left[p[b]] < left[p[a]]
      BY <1>8, <1>9, <1>10
    <2>2. left[p[a]] = n - p[a] /\ left[p[b]] = n - p[b]
      BY <2>1
    <2> HIDE DEF left
    <2> QED
      BY <2>1, <2>2
  <1>11. ASSUME NEW j \in 1 .. Len(p) - 1
         PROVE  /\ 2 * p[j] + 1 < n /\ Less(s[Child(s, p[j], n)], v)
                /\ p[j + 1] = Child(s, p[j], n)
    <2>1. j \in 1 .. Len(p)
      BY <1>8
    <2>2. p[j] \in D \ stop
      BY <1>8, <1>9, <2>1
    <2>3. ~ends(p[j]) /\ p[j + 1] = Child(s, p[j], n)
      BY <1>8, <2>2
    <2> QED
      BY <2>2, <2>3
  <1>12. ends(p[Len(p)])
    BY <1>8
  <1>13. ASSUME NEW j \in 1 .. Len(p) PROVE p[j] \in 0 .. n - 1
    <2>1. CASE j = 1
      BY <1>8, <2>1
    <2>2. CASE j # 1
      <3>1. j - 1 \in 1 .. Len(p) - 1 /\ (j - 1) + 1 = j /\ j - 1 \in 1 .. Len(p)
        BY <1>8, <2>2
      <3>2. 2 * p[j - 1] + 1 < n /\ p[j] = Child(s, p[j - 1], n) /\ p[j - 1] \in D
        BY <1>9, <1>11, <3>1
      <3>3. ~(2 * p[j - 1] + 1 >= n)
        BY <3>2
      <3> QED
        BY <1>1, <1>9, <3>2, <3>3
    <2> QED
      BY <2>1, <2>2
  <1>14. p \in Seq(0 .. n - 1)
    <2>1. p = [j \in 1 .. Len(p) |-> p[j]]
      BY <1>8
    <2> QED
      BY <1>8, <1>13, <2>1
  <1> QED
    BY <1>8, <1>10, <1>11, <1>12, <1>14

\* A heap's slots: none holds less than the one above.
Ordered(s, n) == \A k \in 1 .. n - 1 : Rank[s[Parent(k)]] <= Rank[s[k]]

\* The first slot of an ordered block holds a least value.
LEMMA RootIsLeast ==
    ASSUME NEW n \in Nat, NEW s, \A k \in 0 .. n - 1 : s[k] \in Values, Ordered(s, n)
    PROVE  \A k \in 0 .. n - 1 : Rank[s[0]] <= Rank[s[k]]
  <1> DEFINE Bad == {k \in 0 .. n - 1 : ~(Rank[s[0]] <= Rank[s[k]])}
  <1>1. \A k \in 0 .. n - 1 : Rank[s[k]] \in Nat
    BY CollectionsConstants
  <1>2. Bad = {}
    <2> SUFFICES ASSUME Bad # {} PROVE FALSE
      OBVIOUS
    <2>1. Bad \subseteq Nat
      OBVIOUS
    <2>2. PICK k \in Bad : \A l \in Bad : k <= l
      BY <2>1, LeastNumber
    <2>3. k \in 1 .. n - 1
      BY <1>1, <2>2
    <2>4. Parent(k) \in 0 .. n - 1 /\ Parent(k) < k
      BY <2>3, AroundIs
    <2>5. Rank[s[0]] <= Rank[s[Parent(k)]]
      <3>1. ~(k <= Parent(k))
        BY <2>3, <2>4
      <3> QED
        BY <2>2, <2>4, <3>1
    <2>6. Rank[s[Parent(k)]] <= Rank[s[k]]
      BY <2>3 DEF Ordered
    <2>7. 0 \in 0 .. n - 1
      BY <2>3
    <2> QED
      BY <1>1, <2>2, <2>3, <2>4, <2>5, <2>6, <2>7
  <1> QED
    BY <1>2

\* What rises to its place leaves a heap ordered.
LEMMA RiseOrders ==
    ASSUME NEW n \in Nat \ {0}, NEW s, \A k \in 0 .. n - 1 : s[k] \in Values, Ordered(s, n - 1),
           NEW p, p = Rises(s, s[n - 1], n - 1),
           NEW t, Moved(t, s, p, n)
    PROVE  Ordered(t, n)
  <1>0. /\ \A k \in 0 .. n - 1 : k \notin Range(p) => t[k] = s[k]
        /\ \A j \in 1 .. Len(p) - 1 : t[p[j]] = s[p[j + 1]]
        /\ t[p[Len(p)]] = s[p[1]]
    BY DEF Moved
  <1> DEFINE v == s[n - 1]
             l == Len(p)
  <1>1. /\ p \in Seq(0 .. n - 1) /\ l \in Nat /\ l >= 1 /\ p[1] = n - 1
        /\ \A j \in 1 .. l - 1 : p[j] # 0 /\ Less(v, s[Parent(p[j])]) /\ p[j + 1] = Parent(p[j])
        /\ p[l] = 0 \/ ~Less(v, s[Parent(p[l])])
        /\ \A a, b \in 1 .. l : a < b => p[b] < p[a]
    <2>1. n - 1 \in Nat
      OBVIOUS
    <2> QED
      BY <2>1, RisesIs, LenProperties
  <1>2. \A j \in 1 .. l : p[j] \in 0 .. n - 1 /\ p[j] \in Range(p)
    <2>1. DOMAIN p = 1 .. l
      BY <1>1, LenProperties
    <2> QED
      BY <1>1, <2>1, ElementOfSeq DEF Range
  <1>3. \A k \in Range(p) : \E j \in 1 .. l : p[j] = k
    BY <1>1, LenProperties DEF Range
  <1>4. \A k \in 0 .. n - 1 : Rank[s[k]] \in Nat
    BY CollectionsConstants
  <1>5. t[p[l]] = v /\ Rank[v] \in Nat
    BY <1>0, <1>1, <1>4
  <1>6. \A j \in 2 .. l : p[j] < n - 1
    BY <1>1
  <1>7. \A k \in 1 .. n - 2 : Rank[s[Parent(k)]] <= Rank[s[k]]
    BY DEF Ordered
  <1>8. ASSUME NEW k \in 1 .. n - 1
        PROVE  Parent(k) \in 0 .. n - 2 /\ Parent(k) < k /\ Parent(k) \in 0 .. n - 1
    <2>1. k \in Nat \ {0} /\ k < n
      OBVIOUS
    <2>2. Parent(k) \in Nat /\ Parent(k) < k
      BY <2>1, AroundIs
    <2> QED
      BY <2>1, <2>2
  <1> HIDE DEF v, l
  <1>9. ASSUME NEW j \in 2 .. l PROVE Rank[t[p[j]]] <= Rank[s[p[j]]]
    <2>1. CASE j # l
      <3>1. j \in 1 .. l - 1 /\ j \in 1 .. l
        BY <1>1, <2>1
      <3>2. p[j] \in 1 .. n - 2 /\ p[j + 1] = Parent(p[j])
        BY <1>1, <1>2, <1>6, <3>1, SMTT(30)
      <3>3. t[p[j]] = s[p[j + 1]]
        BY <1>0, <3>1 DEF l
      <3> QED
        BY <1>7, <3>2, <3>3
    <2>2. CASE j = l
      <3>1. j - 1 \in 1 .. l - 1 /\ (j - 1) + 1 = j /\ j \in 1 .. l
        BY <1>1, <2>2
      <3>2. /\ Less(v, s[Parent(p[j - 1])])
            /\ p[(j - 1) + 1] = Parent(p[j - 1])
        BY <1>1, <3>1
      <3>3. Less(v, s[p[j]])
        BY <3>1, <3>2
      <3> QED
        BY <1>2, <1>4, <1>5, <2>2, <3>1, <3>3 DEF Less
    <2> QED
      BY <2>1, <2>2
  <1>10. ASSUME NEW k \in 1 .. n - 1 PROVE Rank[t[Parent(k)]] <= Rank[t[k]]
    <2>1. CASE k \in Range(p)
      <3>1. PICK j \in 1 .. l : p[j] = k
        BY <1>3, <2>1
      <3>2. CASE j # l
        <4>1. j \in 1 .. l - 1 /\ j + 1 \in 2 .. l
          BY <1>1, <3>2
        <4>2. p[j + 1] = Parent(k) /\ t[k] = s[p[j + 1]]
          BY <1>0, <1>1, <3>1, <4>1 DEF l
        <4> QED
          BY <1>9, <4>1, <4>2
      <3>3. CASE j = l
        <4>1. t[k] = v /\ ~Less(v, s[Parent(k)])
          BY <1>1, <1>5, <3>1, <3>3
        <4>2. Parent(k) \notin Range(p)
          <5> SUFFICES ASSUME Parent(k) \in Range(p) PROVE FALSE
            OBVIOUS
          <5>1. PICK a \in 1 .. l : p[a] = Parent(k)
            BY <1>3
          <5>2. l \in 1 .. l /\ (a < l \/ a = l)
            BY <1>1
          <5>3. p[a] >= k
            BY <1>1, <1>2, <3>1, <3>3, <5>1, <5>2
          <5> QED
            BY <1>8, <5>1, <5>3
        <4>3. t[Parent(k)] = s[Parent(k)] /\ Rank[s[Parent(k)]] \in Nat
          BY <1>0, <1>4, <1>8, <4>2
        <4> QED
          BY <1>5, <4>1, <4>3 DEF Less
      <3> QED
        BY <3>2, <3>3
    <2>2. CASE k \notin Range(p)
      <3>1. t[k] = s[k]
        BY <1>0, <2>2
      <3>2. k # n - 1
        <4>1. 1 \in 1 .. l
          BY <1>1
        <4> QED
          BY <1>1, <1>2, <2>2, <4>1
      <3>3. k \in 1 .. n - 2
        BY <3>2
      <3>4. Rank[s[Parent(k)]] <= Rank[s[k]] /\ Parent(k) \in 0 .. n - 1 /\ Parent(k) < n - 1
        BY <1>7, <1>8, <3>3
      <3>5. CASE Parent(k) \in Range(p)
        <4>1. PICK j \in 1 .. l : p[j] = Parent(k)
          BY <1>3, <3>5
        <4>2. j \in 2 .. l
          BY <1>1, <3>4, <4>1
        <4>3. Rank[t[Parent(k)]] <= Rank[s[Parent(k)]] /\ t[Parent(k)] \in Values
          <5>1. Rank[t[Parent(k)]] <= Rank[s[Parent(k)]]
            BY <1>9, <4>1, <4>2
          <5>2. t[p[j]] \in Values
            <6>1. CASE j # l
              <7>1. j \in 1 .. l - 1 /\ j + 1 \in 1 .. l
                BY <1>1, <4>2, <6>1
              <7> QED
                BY <1>0, <1>2, <7>1 DEF l
            <6>2. CASE j = l
              <7>1. n - 1 \in 0 .. n - 1
                OBVIOUS
              <7> QED
                BY <1>5, <6>2, <7>1 DEF v
            <6> QED
              BY <6>1, <6>2
          <5> QED
            BY <4>1, <5>1, <5>2
        <4>4. k \in 0 .. n - 1 /\ Rank[t[Parent(k)]] \in Nat
          BY <4>3, CollectionsConstants
        <4> QED
          BY <1>4, <3>1, <3>4, <4>3, <4>4
      <3>6. CASE Parent(k) \notin Range(p)
        BY <1>0, <3>1, <3>4, <3>6
      <3> QED
        BY <3>5, <3>6
    <2> QED
      BY <2>1, <2>2
  <1> QED
    BY <1>10 DEF Ordered

\* The child a sift goes on to holds no more than the other one.
LEMMA ChildIsLeast ==
    ASSUME NEW n \in Nat, NEW s, \A k \in 0 .. n - 1 : s[k] \in Values, NEW k \in 1 .. n - 1
    PROVE  /\ Child(s, Parent(k), n) \in 1 .. n - 1
           /\ Rank[s[Child(s, Parent(k), n)]] <= Rank[s[k]]
           /\ 2 * Parent(k) + 1 < n
  <1> DEFINE a == Parent(k)
  <1>1. a \in Nat /\ (k = 2 * a + 1 \/ k = 2 * a + 2)
    BY AroundIs
  <1> HIDE DEF a
  <1>2. 2 * a + 1 \in 1 .. n - 1 /\ (2 * a + 2 < n => 2 * a + 2 \in 1 .. n - 1)
    BY <1>1
  <1>3. \A i \in 1 .. n - 1 : Rank[s[i]] \in Nat
    BY CollectionsConstants
  <1>4. Child(s, a, n) \in 1 .. n - 1
    BY <1>2 DEF Child
  <1>5. Rank[s[Child(s, a, n)]] <= Rank[s[k]]
    <2>1. CASE 2 * a + 2 < n /\ Less(s[2 * a + 2], s[2 * a + 1])
      <3>1. Child(s, a, n) = 2 * a + 2
        BY <2>1 DEF Child
      <3>2. Rank[s[2 * a + 2]] < Rank[s[2 * a + 1]]
        BY <2>1 DEF Less
      <3> QED
        BY <1>1, <1>2, <1>3, <2>1, <3>1, <3>2
    <2>2. CASE ~(2 * a + 2 < n /\ Less(s[2 * a + 2], s[2 * a + 1]))
      <3>1. Child(s, a, n) = 2 * a + 1
        BY <2>2 DEF Child
      <3>2. 2 * a + 2 < n => ~(Rank[s[2 * a + 2]] < Rank[s[2 * a + 1]])
        BY <2>2 DEF Less
      <3>3. k = 2 * a + 2 => 2 * a + 2 < n
        OBVIOUS
      <3> QED
        BY <1>1, <1>2, <1>3, <3>1, <3>2, <3>3
    <2> QED
      BY <2>1, <2>2
  <1> QED
    BY <1>2, <1>4, <1>5 DEF a

\* What sinks to its place leaves a heap ordered.
LEMMA SinkOrders ==
    ASSUME NEW n \in Nat \ {0}, NEW s, \A k \in 0 .. n - 1 : s[k] \in Values,
           \A k \in 1 .. n - 1 : Parent(k) # 0 => Rank[s[Parent(k)]] <= Rank[s[k]],
           NEW p, p = Sinks(s, s[0], n),
           NEW t, Moved(t, s, p, n)
    PROVE  Ordered(t, n)
  <1>0. /\ \A k \in 0 .. n - 1 : k \notin Range(p) => t[k] = s[k]
        /\ \A j \in 1 .. Len(p) - 1 : t[p[j]] = s[p[j + 1]]
        /\ t[p[Len(p)]] = s[p[1]]
    BY DEF Moved
  <1> DEFINE v == s[0]
             l == Len(p)
             child(k) == Child(s, k, n)
  <1>1. /\ p \in Seq(0 .. n - 1) /\ l \in Nat /\ l >= 1 /\ p[1] = 0
        /\ \A j \in 1 .. l - 1 : Less(s[child(p[j])], v) /\ p[j + 1] = child(p[j])
        /\ 2 * p[l] + 1 >= n \/ ~Less(s[child(p[l])], v)
        /\ \A a, b \in 1 .. l : a < b => p[a] < p[b]
    BY SinksIs, LenProperties
  <1>2. \A j \in 1 .. l : p[j] \in 0 .. n - 1 /\ p[j] \in Range(p)
    <2>1. DOMAIN p = 1 .. l
      BY <1>1, LenProperties
    <2> QED
      BY <1>1, <2>1, ElementOfSeq DEF Range
  <1>3. \A k \in Range(p) : \E j \in 1 .. l : p[j] = k
    BY <1>1, LenProperties DEF Range
  <1>4. \A k \in 0 .. n - 1 : Rank[s[k]] \in Nat
    BY CollectionsConstants
  <1>5. t[p[l]] = v /\ Rank[v] \in Nat /\ v \in Values
    BY <1>0, <1>1, <1>4
  <1>6. ASSUME NEW k \in 1 .. n - 1 PROVE Parent(k) \in 0 .. n - 1
    <2>1. k \in Nat \ {0} /\ k < n
      OBVIOUS
    <2>2. Parent(k) \in Nat /\ Parent(k) < k
      BY <2>1, AroundIs
    <2> QED
      BY <2>1, <2>2
  <1>7. \A k \in 1 .. n - 1 : /\ child(Parent(k)) \in 1 .. n - 1
                              /\ Rank[s[child(Parent(k))]] <= Rank[s[k]]
                              /\ 2 * Parent(k) + 1 < n
    BY ChildIsLeast
  <1>8. ASSUME NEW j \in 2 .. l
        PROVE  /\ j \in 1 .. l /\ j - 1 \in 1 .. l - 1 /\ (j - 1) + 1 = j
               /\ p[j] \in 1 .. n - 1 /\ Parent(p[j]) = p[j - 1]
    <2>1. j \in 1 .. l /\ j - 1 \in 1 .. l - 1 /\ (j - 1) + 1 = j /\ j - 1 \in 1 .. l
      BY <1>1
    <2>2. p[j] = child(p[j - 1]) /\ p[j - 1] \in Nat
      BY <1>1, <1>2, <2>1
    <2>3. p[j] = 2 * p[j - 1] + 1 \/ p[j] = 2 * p[j - 1] + 2
      BY <2>2 DEF Child
    <2>4. Parent(p[j]) = p[j - 1]
      BY <2>2, <2>3, AroundIs
    <2> QED
      BY <1>2, <2>1, <2>2, <2>3, <2>4
  <1> HIDE DEF v, l, child
  <1>9. \A a, b \in 1 .. l : p[a] = p[b] => a = b
    BY <1>1, <1>2
  <1>10. ASSUME NEW j \in 2 .. l PROVE Rank[s[p[j]]] <= Rank[t[p[j]]]
    <2>1. CASE j # l
      <3>1. j + 1 \in 2 .. l /\ j \in 1 .. l - 1 /\ (j + 1) - 1 = j
        BY <1>1, <2>1
      <3>2. Parent(p[j + 1]) = p[j] /\ p[j + 1] \in 1 .. n - 1 /\ p[j] # 0
        BY <1>8, <3>1
      <3>3. t[p[j]] = s[p[j + 1]]
        BY <1>0, <3>1 DEF l
      <3> QED
        BY <3>2, <3>3
    <2>2. CASE j = l
      <3>1. Less(s[p[j]], v)
        BY <1>1, <1>8
      <3>2. Rank[s[p[j]]] \in Nat
        BY <1>2, <1>4, <1>8
      <3> QED
        BY <1>5, <2>2, <3>1, <3>2 DEF Less
    <2> QED
      BY <2>1, <2>2
  \* a slot of the path has the one above it on the path
  <1>11. ASSUME NEW k \in 1 .. n - 1, k \in Range(p)
         PROVE  \E j \in 2 .. l : p[j] = k /\ Parent(k) = p[j - 1]
    <2>1. PICK j \in 1 .. l : p[j] = k
      BY <1>3, <1>11
    <2>2. j \in 2 .. l
      BY <1>1, <2>1
    <2> QED
      BY <1>8, <2>1, <2>2
  <1>12. ASSUME NEW k \in 1 .. n - 1 PROVE Rank[t[Parent(k)]] <= Rank[t[k]]
    <2>0. k \in 0 .. n - 1 /\ Parent(k) \in 0 .. n - 1
      BY <1>6
    <2>1. CASE Parent(k) \notin Range(p)
      <3>1. k \notin Range(p)
        <4> SUFFICES ASSUME k \in Range(p) PROVE FALSE
          OBVIOUS
        <4>1. PICK j \in 2 .. l : Parent(k) = p[j - 1]
          BY <1>11
        <4>2. j - 1 \in 1 .. l
          BY <1>1
        <4> QED
          BY <1>2, <2>1, <4>1, <4>2
      <3>2. Parent(k) # 0
        <4>1. 1 \in 1 .. l
          BY <1>1
        <4> QED
          BY <1>1, <1>2, <2>1, <4>1
      <3> QED
        BY <1>0, <2>0, <2>1, <3>1, <3>2
    <2>2. CASE Parent(k) \in Range(p)
      <3>1. PICK j \in 1 .. l : p[j] = Parent(k)
        BY <1>3, <2>2
      <3>2. k \in Range(p) => j # l /\ k = p[j + 1]
        <4> SUFFICES ASSUME k \in Range(p) PROVE j # l /\ k = p[j + 1]
          OBVIOUS
        <4>1. PICK b \in 2 .. l : p[b] = k /\ Parent(k) = p[b - 1]
          BY <1>11
        <4>2. b - 1 \in 1 .. l
          BY <1>1
        <4>3. b - 1 = j
          BY <1>9, <3>1, <4>1, <4>2
        <4> QED
          BY <1>1, <4>1, <4>3
      <3>3. k \notin Range(p) => t[k] = s[k]
        BY <1>0, <2>0
      <3>4. CASE j # l
        <4>1. j \in 1 .. l - 1 /\ j + 1 \in 2 .. l
          BY <1>1, <3>4
        <4>2. t[Parent(k)] = s[p[j + 1]] /\ p[j + 1] = child(Parent(k))
          BY <1>0, <1>1, <3>1, <4>1 DEF l
        <4>3. CASE k \in Range(p)
          BY <1>10, <3>2, <4>1, <4>2, <4>3
        <4>4. CASE k \notin Range(p)
          BY <1>7, <3>3, <4>2, <4>4
        <4> QED
          BY <4>3, <4>4
      <3>5. CASE j = l
        <4>1. t[Parent(k)] = v /\ t[k] = s[k]
          BY <1>5, <3>1, <3>2, <3>3, <3>5
        <4>2. ~Less(s[child(Parent(k))], v)
          <5>1. 2 * Parent(k) + 1 < n
            BY <1>7
          <5>2. ~(2 * Parent(k) + 1 >= n)
            BY <2>0, <5>1
          <5> QED
            BY <1>1, <3>1, <3>5, <5>2
        <4>3. Rank[s[child(Parent(k))]] \in Nat /\ Rank[s[k]] \in Nat
          <5>1. child(Parent(k)) \in 0 .. n - 1
            BY <1>7
          <5> QED
            BY <1>4, <2>0, <5>1
        <4>4. Rank[v] <= Rank[s[child(Parent(k))]]
          BY <1>5, <4>2, <4>3 DEF Less
        <4>5. Rank[s[child(Parent(k))]] <= Rank[s[k]]
          BY <1>7
        <4> QED
          BY <1>5, <4>1, <4>3, <4>4, <4>5
      <3> QED
        BY <3>4, <3>5
    <2> QED
      BY <2>1, <2>2
  <1> QED
    BY <1>12 DEF Ordered

-----------------------------------------------------------------------------
(* The values of a row, as it grows and shrinks.                             *)

\* The values of a row, and that none is in it twice.
LEMMA RangeIs ==
    ASSUME NEW V, NEW s \in Seq(V)
    PROVE  /\ \A x : x \in Range(s) <=> \E j \in 1 .. Len(s) : x = s[j]
           /\ IsInjective(s) <=> \A i, j \in 1 .. Len(s) : s[i] = s[j] => i = j
  <1>1. DOMAIN s = 1 .. Len(s)
    BY LenProperties
  <1> QED
    BY <1>1, Zenon DEF Range, IsInjective

\* The values of a row with one more at its end,
LEMMA AppendedValues ==
    ASSUME NEW s \in Seq(Values), NEW v \in Values
    PROVE  /\ Range(Append(s, v)) = Range(s) \cup {v}
           /\ IsInjective(s) /\ v \notin Range(s) => IsInjective(Append(s, v))
  <1> DEFINE t == Append(s, v)
  <1>1. /\ t \in Seq(Values) /\ Len(t) = Len(s) + 1 /\ t[Len(s) + 1] = v /\ Len(s) \in Nat
        /\ \A j \in 1 .. Len(s) : t[j] = s[j]
    OBVIOUS
  <1> HIDE DEF t
  <1>2. \A j \in 1 .. Len(t) : j \in 1 .. Len(s) \/ j = Len(s) + 1
    BY <1>1
  <1>3. (\A j \in 1 .. Len(s) : j \in 1 .. Len(t)) /\ Len(s) + 1 \in 1 .. Len(t)
    BY <1>1
  <1>4. \A x : x \in Range(t) <=> x \in Range(s) \/ x = v
    <2>1. \A x : x \in Range(t) <=> \E j \in 1 .. Len(t) : x = t[j]
      BY <1>1, RangeIs
    <2>2. \A x : x \in Range(s) <=> \E j \in 1 .. Len(s) : x = s[j]
      BY RangeIs
    <2>3. ASSUME NEW j \in 1 .. Len(t) PROVE t[j] \in Range(s) \/ t[j] = v
      BY <1>1, <1>2, <2>2
    <2>4. ASSUME NEW j \in 1 .. Len(s) PROVE s[j] \in Range(t)
      BY <1>1, <1>3, <2>1
    <2>5. v \in Range(t)
      BY <1>1, <1>3, <2>1
    <2> QED
      BY <2>1, <2>2, <2>3, <2>4, <2>5
  <1>5. ASSUME IsInjective(s), v \notin Range(s) PROVE IsInjective(t)
    <2>1. \A i, j \in 1 .. Len(s) : s[i] = s[j] => i = j
      BY <1>5, RangeIs
    <2>2. \A j \in 1 .. Len(s) : s[j] # v
      BY <1>5, RangeIs
    <2>3. \A i, j \in 1 .. Len(t) : t[i] = t[j] => i = j
      BY <1>1, <1>2, <2>1, <2>2
    <2> QED
      BY <1>1, <2>3, RangeIs
  <1> QED
    BY <1>4, <1>5 DEF t

\* with one more at its front,
LEMMA PrependedValues ==
    ASSUME NEW s \in Seq(Values), NEW v \in Values
    PROVE  /\ Range(<<v>> \o s) = Range(s) \cup {v}
           /\ IsInjective(s) /\ v \notin Range(s) => IsInjective(<<v>> \o s)
  <1> DEFINE t == <<v>> \o s
  <1>1. /\ t \in Seq(Values) /\ Len(t) = Len(s) + 1 /\ t[1] = v /\ Len(s) \in Nat
        /\ \A j \in 1 .. Len(s) : t[j + 1] = s[j]
    OBVIOUS
  <1> HIDE DEF t
  <1>2. \A j \in 1 .. Len(t) : j = 1 \/ \E k \in 1 .. Len(s) : j = k + 1
    <2> SUFFICES ASSUME NEW j \in 1 .. Len(t), j # 1 PROVE \E k \in 1 .. Len(s) : j = k + 1
      OBVIOUS
    <2>1. j - 1 \in 1 .. Len(s) /\ j = (j - 1) + 1
      BY <1>1
    <2> QED
      BY <2>1
  <1>3. (\A j \in 1 .. Len(s) : j + 1 \in 1 .. Len(t)) /\ 1 \in 1 .. Len(t)
    BY <1>1
  <1>4. \A x : x \in Range(t) <=> x \in Range(s) \/ x = v
    <2>1. \A x : x \in Range(t) <=> \E j \in 1 .. Len(t) : x = t[j]
      BY <1>1, RangeIs
    <2>2. \A x : x \in Range(s) <=> \E j \in 1 .. Len(s) : x = s[j]
      BY RangeIs
    <2>3. ASSUME NEW j \in 1 .. Len(t) PROVE t[j] \in Range(s) \/ t[j] = v
      BY <1>1, <1>2, <2>2
    <2>4. ASSUME NEW j \in 1 .. Len(s) PROVE s[j] \in Range(t)
      BY <1>1, <1>3, <2>1
    <2>5. v \in Range(t)
      BY <1>1, <1>3, <2>1
    <2> QED
      BY <2>1, <2>2, <2>3, <2>4, <2>5
  <1>5. ASSUME IsInjective(s), v \notin Range(s) PROVE IsInjective(t)
    <2>1. \A i, j \in 1 .. Len(s) : s[i] = s[j] => i = j
      BY <1>5, RangeIs
    <2>2. \A j \in 1 .. Len(s) : s[j] # v
      BY <1>5, RangeIs
    <2>3. \A i, j \in 1 .. Len(t) : t[i] = t[j] => i = j
      <3> SUFFICES ASSUME NEW i \in 1 .. Len(t), NEW j \in 1 .. Len(t), t[i] = t[j], i < j
                   PROVE  FALSE
        BY <1>1
      <3>1. PICK k \in 1 .. Len(s) : j = k + 1
        BY <1>2
      <3>2. CASE i = 1
        BY <1>1, <2>2, <3>1, <3>2
      <3>3. CASE i # 1
        <4>1. PICK l \in 1 .. Len(s) : i = l + 1
          BY <1>2, <3>3
        <4>2. s[l] = s[k]
          BY <1>1, <3>1, <4>1
        <4> QED
          BY <2>1, <3>1, <4>1, <4>2
      <3> QED
        BY <3>2, <3>3
    <2> QED
      BY <1>1, <2>3, RangeIs
  <1> QED
    BY <1>4, <1>5 DEF t

\* without one of its values,
LEMMA RemainingValues ==
    ASSUME NEW s \in Seq(Values), NEW i \in 1 .. Len(s), NEW t, t = Promised!Without(s, i),
           IsInjective(s)
    PROVE  Range(t) = Range(s) \ {s[i]} /\ IsInjective(t)
  <1>1. /\ t \in Seq(Values) /\ Len(t) = Len(s) - 1 /\ Len(s) \in Nat
        /\ \A j \in 1 .. Len(s) - 1 : t[j] = IF j < i THEN s[j] ELSE s[j + 1]
    BY WithoutIs, SMTT(30)
  <1>2. \A j, k \in 1 .. Len(s) : s[j] = s[k] => j = k
    BY RangeIs
  <1> DEFINE from(j) == IF j < i THEN j ELSE j + 1
  <1>3. \A j \in 1 .. Len(t) : from(j) \in 1 .. Len(s) /\ from(j) # i /\ t[j] = s[from(j)]
    BY <1>1
  <1>4. \A j, k \in 1 .. Len(t) : from(j) = from(k) => j = k
    OBVIOUS
  <1>5. \A k \in 1 .. Len(s) : k # i => \E j \in 1 .. Len(t) : from(j) = k
    <2> SUFFICES ASSUME NEW k \in 1 .. Len(s), k # i PROVE \E j \in 1 .. Len(t) : from(j) = k
      OBVIOUS
    <2>1. CASE k < i
      <3>1. k \in 1 .. Len(t) /\ from(k) = k
        BY <1>1, <2>1
      <3> QED
        BY <3>1
    <2>2. CASE ~(k < i)
      <3>1. k - 1 \in 1 .. Len(t) /\ from(k - 1) = k
        BY <1>1, <2>2
      <3> QED
        BY <3>1
    <2> QED
      BY <2>1, <2>2
  <1> HIDE DEF from
  <1>6. \A x : x \in Range(t) <=> x \in Range(s) /\ x # s[i]
    <2>1. \A x : x \in Range(t) <=> \E j \in 1 .. Len(t) : x = t[j]
      BY <1>1, RangeIs
    <2>2. \A x : x \in Range(s) <=> \E j \in 1 .. Len(s) : x = s[j]
      BY RangeIs
    <2>3. ASSUME NEW j \in 1 .. Len(t) PROVE t[j] \in Range(s) /\ t[j] # s[i]
      BY <1>2, <1>3, <2>2
    <2>4. ASSUME NEW k \in 1 .. Len(s), s[k] # s[i] PROVE s[k] \in Range(t)
      BY <1>3, <1>5, <2>1, <2>4, SMTT(30)
    <2> QED
      BY <2>1, <2>2, <2>3, <2>4
  <1>7. \A j, k \in 1 .. Len(t) : t[j] = t[k] => j = k
    BY <1>2, <1>3, <1>4
  <1>8. IsInjective(t)
    BY <1>1, <1>7, RangeIs
  <1> QED
    BY <1>6, <1>8

\* and with one in the place of another.
LEMMA ReplacedValues ==
    ASSUME NEW s \in Seq(Values), NEW i \in 1 .. Len(s), NEW v \in Values, IsInjective(s)
    PROVE  /\ Range([s EXCEPT ![i] = v]) = (Range(s) \ {s[i]}) \cup {v}
           /\ v \notin Range(s) => IsInjective([s EXCEPT ![i] = v])
  <1> DEFINE t == [s EXCEPT ![i] = v]
  <1>1. /\ t \in Seq(Values) /\ Len(t) = Len(s)
        /\ \A j \in 1 .. Len(s) : t[j] = IF j = i THEN v ELSE s[j]
    OBVIOUS
  <1> HIDE DEF t
  <1>2. \A j, k \in 1 .. Len(s) : s[j] = s[k] => j = k
    BY RangeIs
  <1>3. \A x : x \in Range(s) <=> \E j \in 1 .. Len(s) : x = s[j]
    BY RangeIs
  <1>4. /\ \A x : x \in Range(t) <=> \E j \in 1 .. Len(t) : x = t[j]
        /\ IsInjective(t) <=> \A j, k \in 1 .. Len(t) : t[j] = t[k] => j = k
    BY <1>1, RangeIs
  <1>5. \A x : x \in Range(t) <=> (x \in Range(s) /\ x # s[i]) \/ x = v
    <2>1. ASSUME NEW j \in 1 .. Len(t) PROVE (t[j] \in Range(s) /\ t[j] # s[i]) \/ t[j] = v
      BY <1>1, <1>2, <1>3
    <2>2. ASSUME NEW j \in 1 .. Len(s), s[j] # s[i] PROVE s[j] \in Range(t)
      BY <1>1, <1>4, <2>2
    <2>3. v \in Range(t)
      BY <1>1, <1>4
    <2> QED
      BY <1>3, <1>4, <2>1, <2>2, <2>3
  <1>6. ASSUME v \notin Range(s) PROVE IsInjective(t)
    <2>1. \A j, k \in 1 .. Len(t) : t[j] = t[k] => j = k
      BY <1>1, <1>2, <1>3, <1>6
    <2> QED
      BY <1>4, <2>1
  <1> QED
    BY <1>5, <1>6 DEF t

-----------------------------------------------------------------------------
(* Room for one more.                                                        *)

\* The larger of two numbers.
LEMMA MaxIs ==
    ASSUME NEW a \in Int, NEW b \in Int
    PROVE  Max({a, b}) = IF a >= b THEN a ELSE b
  <1> DEFINE m == IF a >= b THEN a ELSE b
  <1>1. m \in {a, b} /\ \A y \in {a, b} : m >= y
    OBVIOUS
  <1>2. \A x \in {a, b} : (\A y \in {a, b} : x >= y) => x = m
    OBVIOUS
  <1> HIDE DEF m
  <1>3. (CHOOSE x \in {a, b} : \A y \in {a, b} : x >= y) = m
    BY <1>1, <1>2, Zenon
  <1> QED
    BY <1>3 DEF Max, m

\* A block grows to what is asked for, at least.
LEMMA GrownIs ==
    ASSUME capacity \in Nat, NEW n \in Nat
    PROVE  Grown(n) \in Nat /\ Grown(n) >= n
  BY MaxIs DEF Grown

\* The block a value is about to be added to has room, and the same row.
LEMMA RoomyIs ==
    ASSUME Holds(memory, capacity, head, length), NEW r, r = Roomy
    PROVE  /\ Holds(r.memory, r.capacity, r.head, length) /\ length < r.capacity
           /\ RowOf(r.memory, r.capacity, r.head, length) = RowOf(memory, capacity, head, length)
           /\ head = 0 => r.head = 0
  <1>1. capacity \in Nat /\ length \in 0 .. capacity
    BY DEF Holds
  <1>2. CASE length = capacity
    <2>1. Grown(length + 1) \in Nat /\ Grown(length + 1) >= length + 1
      BY <1>1, GrownIs
    <2> DEFINE g == Grown(length + 1)
    <2>2. r.memory = Rehoused(g) /\ r.capacity = g /\ r.head = 0
      BY <1>2 DEF Roomy
    <2> HIDE DEF g
    <2>3. g \in Nat /\ length <= g /\ length < g
      BY <1>1, <2>1 DEF g
    <2>4. ASSUME NEW n \in Nat, length <= n
          PROVE  /\ Holds(Rehoused(n), n, 0, length)
                 /\ RowOf(Rehoused(n), n, 0, length) = RowOf(memory, capacity, head, length)
      BY <2>4, RehousedIs
    <2> QED
      BY <2>2, <2>3, <2>4
  <1>3. CASE length # capacity
    <2>1. r.memory = memory /\ r.capacity = capacity /\ r.head = head
      BY <1>3 DEF Roomy
    <2> QED
      BY <1>1, <1>3, <2>1
  <1> QED
    BY <1>2, <1>3

-----------------------------------------------------------------------------
(* The inductive invariant.  An iterator over an array leaves its length as   *)
(* it is and goes on from the cursor; the block of a collection that is gone  *)
(* holds nothing.                                                            *)

Size == IF phase = "gone" \/ cursor >= length THEN 0 ELSE length - cursor
First == IF cursor = 0 THEN head ELSE IF cursor < length THEN cursor ELSE 0
Contents == RowOf(memory, capacity, First, Size)

Owned(s) == IF copied THEN {} ELSE Range(s)
Distinct(s) == ~copied => IsInjective(s)

Shape ==
    /\ kind \in Kinds /\ copied \in BOOLEAN /\ phase \in {"open", "iterating", "gone"}
    /\ cursor \in Nat /\ length \in Nat /\ length <= capacity
    /\ kind \in {"Array", "Heap"} => head = 0
    /\ cursor # 0 => kind = "Array" /\ phase # "open"

IInv ==
    /\ Shape
    /\ Holds(memory, capacity, First, Size)
    /\ live = Owned(Contents) /\ Distinct(Contents)
    /\ kind = "Heap" => Ordered(memory.slots, Size)

\* Until an iterator over an array has taken a value, the block holds all.
LEMMA AllHeld ==
    ASSUME phase # "gone", cursor = 0, length \in Nat
    PROVE  Size = length /\ First = head
  BY DEF Size, First

\* The row that the collection shows is what its block holds.
LEMMA RowIsContents == IInv => Row = Contents
  <1> SUFFICES ASSUME IInv PROVE Row = Contents
    OBVIOUS
  <1>1. Shape /\ Holds(memory, capacity, First, Size)
    BY DEF IInv
  <1>2. CASE phase = "gone"
    <2>1. Size = 0
      BY <1>2 DEF Size
    <2>2. Holds(memory, capacity, First, 0)
      BY <1>1, <2>1
    <2>3. RowOf(memory, capacity, First, 0) = <<>>
      BY <2>2, NothingHeld
    <2> QED
      BY <1>2, <2>1, <2>3 DEF Row, Contents
  <1>3. CASE phase # "gone" /\ kind = "Array" /\ phase = "iterating"
    <2>1. cursor \in Nat /\ length \in Nat /\ length <= capacity /\ capacity \in Nat /\ head = 0
      BY <1>1, <1>3 DEF Shape, Holds
    <2>2. Max({0, length - cursor}) = Size
      <3>1. 0 \in Int /\ length - cursor \in Int
        BY <2>1
      <3>2. Max({0, length - cursor}) = IF 0 >= length - cursor THEN 0 ELSE length - cursor
        BY <3>1, MaxIs
      <3> QED
        BY <1>3, <2>1, <3>2 DEF Size
    <2>3. ASSUME NEW i \in 1 .. Size PROVE memory.slots[cursor + i - 1] = memory.slots[Pos(capacity, First, i - 1)]
      <3>1. cursor < length /\ Size = length - cursor /\ First = cursor
        BY <1>3, <2>1 DEF Size, First
      <3>2. cursor + i - 1 \in 0 .. capacity - 1 /\ cursor + i - 1 = cursor + (i - 1)
            /\ i - 1 \in 0 .. capacity /\ cursor \in 0 .. capacity - 1 /\ capacity \in Nat \ {0}
        BY <2>1, <3>1
      <3>3. Pos(capacity, cursor, i - 1) = IF cursor + (i - 1) < capacity THEN cursor + (i - 1)
                                           ELSE cursor + (i - 1) - capacity
        BY <3>2, PosIs
      <3>4. cursor + (i - 1) < capacity
        BY <3>2
      <3> QED
        BY <3>1, <3>2, <3>3, <3>4
    <2>4. Row = [i \in 1 .. Size |-> memory.slots[cursor + i - 1]]
      BY <1>3, <2>2 DEF Row
    <2> QED
      BY <2>3, <2>4, Zenon DEF Contents, RowOf
  <1>4. CASE phase # "gone" /\ ~(kind = "Array" /\ phase = "iterating")
    <2>1. cursor = 0 /\ length \in Nat
      BY <1>1, <1>4 DEF Shape
    <2>2. Size = length /\ First = head
      BY <1>4, <2>1, AllHeld
    <2>3. Row = [i \in 1 .. length |-> memory.slots[Slot(i - 1)]]
      BY <1>4 DEF Row
    <2> QED
      BY <2>2, <2>3 DEF Contents, RowOf, Slot, Pos
  <1> QED
    BY <1>2, <1>3, <1>4

\* The row of the values that are held.
LEMMA ContentsAre ==
    ASSUME IInv
    PROVE  /\ Contents \in Seq(Values) /\ Len(Contents) = Size /\ Size \in Nat
           /\ \A k \in 0 .. Size - 1 : Contents[k + 1] = memory.slots[Pos(capacity, First, k)]
  <1>1. Holds(memory, capacity, First, Size)
    BY DEF IInv
  <1>2. Size \in Nat
    BY <1>1 DEF Holds
  <1> QED
    BY <1>1, <1>2, RowIs DEF Contents

\* So each value that is not copied has one place.
LEMMA InvOwnedOnce == IInv => OwnedOnce
  <1> SUFFICES ASSUME IInv PROVE OwnedOnce
    OBVIOUS
  <1> DEFINE held == {i \in DOMAIN memory.slots : memory.initialized[i]}
             s == Contents
             n == Size
             W == Window(capacity, First, n)
  <1>1. s \in Seq(Values) /\ Len(s) = n /\ n \in Nat
        /\ \A k \in 0 .. n - 1 : s[k + 1] = memory.slots[Pos(capacity, First, k)]
    BY ContentsAre
  <1>2. live = Owned(s) /\ Distinct(s) /\ phase \in {"open", "iterating", "gone"}
    BY DEF IInv, Shape
  <1>3. Holds(memory, capacity, First, n) /\ memory \in Blocks(capacity) /\ capacity \in Nat
    BY DEF IInv, Holds
  <1>4. W \subseteq 0 .. capacity - 1 /\ (capacity # 0 => First \in 0 .. capacity - 1)
        /\ (capacity = 0 => n = 0) /\ n <= capacity
    <2>1. CASE capacity = 0
      BY <1>3, <2>1 DEF Window, Holds
    <2>2. CASE capacity # 0
      BY <1>3, <2>2, HoldsFacts
    <2> QED
      BY <2>1, <2>2
  <1>5. held = IF copied THEN {} ELSE W
    <2>1. DOMAIN memory.slots = 0 .. capacity - 1
      BY <1>3 DEF Blocks
    <2>2. \A i \in 0 .. capacity - 1 : memory.initialized[i] <=> ~copied /\ i \in W
      BY <1>3 DEF Holds
    <2> HIDE DEF W
    <2> QED
      BY <1>4, <2>1, <2>2
  <1>6. Cardinality({}) = 0
    BY FS_EmptySet
  <1>7. CASE copied
    BY <1>2, <1>5, <1>6, <1>7 DEF OwnedOnce, Owned
  <1>8. CASE ~copied
    <2>1. IsInjective(s) /\ live = Range(s) /\ held = W
      BY <1>2, <1>5, <1>8 DEF Owned, Distinct
    <2> DEFINE at(k) == Pos(capacity, First, k)
    <2> HIDE DEF s, n, held
    <2>2. \A j \in 1 .. n : j - 1 \in 0 .. n - 1 /\ (j - 1) + 1 = j
      BY <1>1
    <2>3. \A k \in 0 .. n - 1 : k + 1 \in 1 .. n /\ (k + 1) - 1 = k
      BY <1>1
    <2>4. \A x : x \in live <=> \E j \in 1 .. n : x = s[j]
      BY <1>1, <2>1, RangeIs
    <2>5. {memory.slots[i] : i \in held} = live
      <3>1. ASSUME NEW i \in W PROVE memory.slots[i] \in live
        <4>1. PICK k \in 0 .. n - 1 : i = at(k)
          BY DEF Window
        <4> QED
          BY <1>1, <2>3, <2>4, <4>1
      <3>2. ASSUME NEW j \in 1 .. n PROVE s[j] = memory.slots[at(j - 1)] /\ at(j - 1) \in W
        <4>1. s[(j - 1) + 1] = memory.slots[at(j - 1)]
          BY <1>1, <2>2
        <4>2. at(j - 1) \in W
          BY <2>2 DEF Window
        <4> QED
          BY <2>2, <4>1, <4>2
      <3> HIDE DEF W
      <3> QED
        BY <2>1, <2>4, <3>1, <3>2
    <2> DEFINE f == [j \in 1 .. n |-> at(j - 1)]
    <2>6. f \in Bijection(1 .. n, W)
      <3>1. f \in [1 .. n -> W]
        BY <2>2 DEF Window
      <3>2. \A i, j \in 1 .. n : f[i] = f[j] => i = j
        <4> SUFFICES ASSUME NEW i \in 1 .. n, NEW j \in 1 .. n, f[i] = f[j] PROVE i = j
          OBVIOUS
        <4>1. at(i - 1) = at(j - 1)
          OBVIOUS
        <4>2. capacity \in Nat \ {0} /\ First \in 0 .. capacity - 1
          BY <1>1, <1>3, <1>4
        <4>3. \A a, b \in 0 .. capacity - 1 : at(a) = at(b) => a = b
          BY <4>2, PosFacts
        <4>4. i - 1 \in 0 .. capacity - 1 /\ j - 1 \in 0 .. capacity - 1
          BY <1>1, <1>3, <1>4
        <4>5. i - 1 = j - 1
          BY <4>1, <4>3, <4>4
        <4> QED
          BY <4>5
      <3>3. \A x \in W : \E j \in 1 .. n : f[j] = x
        <4> SUFFICES ASSUME NEW x \in W PROVE \E j \in 1 .. n : f[j] = x
          OBVIOUS
        <4>1. PICK k \in 0 .. n - 1 : x = at(k)
          BY DEF Window
        <4>2. f[k + 1] = at(k)
          BY <2>3
        <4> QED
          BY <2>3, <4>1, <4>2
      <3> HIDE DEF f, W
      <3> QED
        BY <3>1, <3>2, <3>3 DEF Bijection, Injection, Surjection, IsInjective
    <2>7. s \in Bijection(1 .. n, live)
      <3>1. s \in [1 .. n -> live]
        <4>1. s \in [1 .. n -> Values]
          BY <1>1, LenProperties
        <4> QED
          BY <2>4, <4>1
      <3>2. \A i, j \in 1 .. n : s[i] = s[j] => i = j
        BY <1>1, <2>1, RangeIs
      <3> QED
        BY <2>4, <3>1, <3>2 DEF Bijection, Injection, Surjection, IsInjective
    <2>8. IsFiniteSet(1 .. n)
      BY <1>1, FS_Interval
    <2> HIDE DEF f, W
    <2>9. Cardinality(W) = Cardinality(1 .. n) /\ Cardinality(live) = Cardinality(1 .. n)
      BY <2>6, <2>7, <2>8, FS_Bijection DEF ExistsBijection
    <2>10. phase = "gone" => live = {}
      <3> SUFFICES ASSUME phase = "gone" PROVE live = {}
        OBVIOUS
      <3>1. n = 0
        BY DEF Size, n
      <3> QED
        BY <2>4, <3>1
    <2> QED
      BY <2>1, <2>5, <2>9, <2>10 DEF OwnedOnce, held
  <1> QED
    BY <1>7, <1>8

-----------------------------------------------------------------------------
(* What a step does to the row, and the step of Container it is.             *)

\* What a step must do to the block, for the invariant to hold after it.
LEMMA Follows ==
    ASSUME Shape', copied' = copied, kind' = kind, NEW g, NEW n, g = First', n = Size',
           NEW t, t = RowOf(memory', capacity', g, n), Holds(memory', capacity', g, n),
           live' = Owned(t), Distinct(t), kind = "Heap" => Ordered(memory'.slots, n)
    PROVE  IInv' /\ Row' = t
  <1>1. t = Contents'
    BY DEF Contents
  <1>2. Holds(memory, capacity, First, Size)'
    BY DEF Holds, Blocks, Window
  <1>3. (live = Owned(Contents) /\ Distinct(Contents))'
    BY <1>1 DEF Owned, Distinct
  <1>4. (kind = "Heap" => Ordered(memory.slots, Size))'
    BY DEF Ordered
  <1>5. IInv'
    BY <1>2, <1>3, <1>4 DEF IInv
  <1>6. (IInv => Row = Contents)'
    BY RowIsContents, PTL
  <1> QED
    BY <1>1, <1>5, <1>6

Whole == phase # "gone" /\ cursor = 0

\* What the invariant says of such a collection,
LEMMA WholeIs ==
    ASSUME IInv, Whole
    PROVE  /\ Contents = RowOf(memory, capacity, head, length) /\ Row = Contents
           /\ Holds(memory, capacity, head, length)
           /\ Contents \in Seq(Values) /\ Len(Contents) = length
           /\ live = Owned(Contents) /\ Distinct(Contents)
           /\ kind = "Heap" => Ordered(memory.slots, length)
           /\ length \in Nat /\ capacity \in Nat /\ length <= capacity
           /\ kind \in {"Array", "Heap"} => head = 0
           /\ kind \in Kinds /\ copied \in BOOLEAN
  <1>1. length \in Nat /\ length <= capacity /\ kind \in Kinds /\ copied \in BOOLEAN
        /\ (kind \in {"Array", "Heap"} => head = 0)
    BY DEF IInv, Shape
  <1>2. Size = length /\ First = head
    BY <1>1, AllHeld DEF Whole
  <1>3. Contents \in Seq(Values) /\ Len(Contents) = length
    BY <1>2, ContentsAre
  <1>4. capacity \in Nat
    BY DEF IInv, Holds
  <1> QED
    BY <1>1, <1>2, <1>3, <1>4, RowIsContents DEF IInv, Contents

\* and what a step must do for it to stay one.
LEMMA WholeStep ==
    ASSUME IInv, Whole, UNCHANGED unshaped,
           NEW t, t = RowOf(memory', capacity', head', length'),
           Holds(memory', capacity', head', length'),
           live' = Owned(t), Distinct(t),
           kind \in {"Array", "Heap"} => head' = 0,
           kind = "Heap" => Ordered(memory'.slots, length')
    PROVE  IInv' /\ Row' = t /\ t \in Seq(Values)
  <1>1. kind' = kind /\ copied' = copied /\ cursor' = cursor /\ phase' = phase
    BY DEF unshaped
  <1>2. phase' # "gone" /\ cursor' = 0 /\ length' \in Nat /\ length' <= capacity' /\ capacity' \in Nat
    BY <1>1 DEF Whole, Holds
  <1>3. Size' = length' /\ First' = head'
    <2>1. First' = head'
      BY <1>2 DEF First
    <2>2. cursor' >= length' => length' = 0
      BY <1>2
    <2>3. length' - cursor' = length'
      <3>1. \A x \in Nat : x - 0 = x
        OBVIOUS
      <3>2. length' - 0 = length'
        BY <1>2, <3>1
      <3> QED
        BY <1>2, <3>2
    <2>4. Size' = IF phase' = "gone" \/ cursor' >= length' THEN 0 ELSE length' - cursor'
      BY DEF Size
    <2> QED
      BY <1>2, <2>1, <2>2, <2>3, <2>4
  <1>4. Shape'
    BY <1>1, <1>2 DEF Shape, IInv
  <1>5. ASSUME NEW g, NEW n, g = First', n = Size'
        PROVE  IInv' /\ Row' = t
    <2>1. g = head' /\ n = length'
      BY <1>3, <1>5
    <2> QED
      BY <1>1, <1>4, <1>5, <2>1, Follows
  <1>6. t \in Seq(Values)
    BY RowIs
  <1> QED
    BY <1>5, <1>6

\* The same row, or in a heap the same values.
LEMMA BecomesSo ==
    ASSUME NEW t \in Seq(Values), NEW u \in Seq(Values), Row' = t,
           t = u \/ (kind = "Heap" /\ Permuted(t, u))
    PROVE  Promised!Becomes(u)
  <1>1. \A v : Promised!Count(t, v) = Promised!Count(u, v)
    BY PermutedSame
  <1>2. kind # "Heap" => t = u
    OBVIOUS
  <1> QED
    BY <1>1, <1>2 DEF Promised!Becomes

\* Nothing is done to the block.
LEMMA StaysSo ==
    ASSUME IInv, Whole, UNCHANGED unshaped, UNCHANGED <<memory, capacity, length, head, live>>
    PROVE  IInv' /\ Promised!Becomes(Row) /\ Row' = Row
  <1>1. /\ Contents = RowOf(memory, capacity, head, length) /\ Row = Contents
        /\ Holds(memory, capacity, head, length)
        /\ Contents \in Seq(Values)
        /\ live = Owned(Contents) /\ Distinct(Contents)
        /\ kind = "Heap" => Ordered(memory.slots, length)
        /\ kind \in {"Array", "Heap"} => head = 0
    BY WholeIs
  <1>2. memory' = memory /\ capacity' = capacity /\ head' = head /\ length' = length /\ live' = live
    OBVIOUS
  <1>3. IInv' /\ Row' = Contents
    <2>1. Contents = RowOf(memory', capacity', head', length')
      BY <1>1, <1>2
    <2>2. Holds(memory', capacity', head', length') /\ live' = Owned(Contents)
          /\ (kind \in {"Array", "Heap"} => head' = 0)
          /\ (kind = "Heap" => Ordered(memory'.slots, length'))
      BY <1>1, <1>2
    <2> QED
      BY <1>1, <2>1, <2>2, WholeStep
  <1> QED
    BY <1>1, <1>3, BecomesSo

\* The steps of Container.
LEMMA NextByRow ==
    ASSUME kind' = kind
    PROVE  /\ \A v \in Values : Promised!AddLast(v) \/ Promised!AddFirst(v) => Promised!Next
           /\ \A i \in 1 .. Len(Row) + 1 : Promised!Remove(i) \/ Promised!Look(i) => Promised!Next
           /\ \A i \in 1 .. Len(Row) + 1, v \in Values : Promised!Replace(i, v) => Promised!Next
           /\ \/ Promised!RemoveLeast \/ Promised!RemoveNone \/ Promised!LookLeast
              \/ Promised!LookAll \/ Promised!Resize \/ Promised!Clear
              => Promised!Next
  BY DEF Promised!Next

-----------------------------------------------------------------------------
(* The operations, one by one.                                               *)

\* Blocks with the same row are in the same order.
LEMMA SameOrder ==
    ASSUME NEW m, NEW c, NEW q, NEW d, NEW n, Holds(m, c, 0, n), Holds(q, d, 0, n),
           RowOf(m, c, 0, n) = RowOf(q, d, 0, n), Ordered(m.slots, n)
    PROVE  Ordered(q.slots, n)
  <1>1. n \in Nat
    BY DEF Holds
  <1>2. ASSUME NEW k \in 0 .. n - 1 PROVE q.slots[k] = m.slots[k]
    <2>1. RowOf(m, c, 0, n)[k + 1] = m.slots[k]
      BY InFront
    <2>2. RowOf(q, d, 0, n)[k + 1] = q.slots[k]
      BY InFront
    <2> QED
      BY <2>1, <2>2
  <1>3. \A k \in 1 .. n - 1 : Parent(k) \in 0 .. n - 1 /\ k \in 0 .. n - 1
    <2> SUFFICES ASSUME NEW k \in 1 .. n - 1 PROVE Parent(k) \in 0 .. n - 1 /\ k \in 0 .. n - 1
      OBVIOUS
    <2>1. k \in Nat \ {0} /\ k < n
      BY <1>1
    <2>2. Parent(k) \in Nat /\ Parent(k) < k
      BY <2>1, AroundIs
    <2> QED
      BY <1>1, <2>1, <2>2
  <1> QED
    BY <1>2, <1>3 DEF Ordered

\* A block of another size: reserve and shrinkToFit.
LEMMA ResizedOp ==
    ASSUME IInv, Whole, UNCHANGED unshaped, NEW n \in Nat, length <= n, Resized(n)
    PROVE  IInv' /\ Promised!Resize
  <1>1. /\ Contents = RowOf(memory, capacity, head, length) /\ Row = Contents
        /\ Holds(memory, capacity, head, length)
        /\ Contents \in Seq(Values)
        /\ live = Owned(Contents) /\ Distinct(Contents)
        /\ kind = "Heap" => Ordered(memory.slots, length)
        /\ kind \in {"Array", "Heap"} => head = 0
    BY WholeIs
  <1>2. memory' = Rehoused(n) /\ capacity' = n /\ head' = 0 /\ length' = length /\ live' = live
        /\ outcome' = <<"resize">>
    BY DEF Resized
  <1>3. Holds(Rehoused(n), n, 0, length) /\ RowOf(Rehoused(n), n, 0, length) = Contents
    BY <1>1, RehousedIs
  <1>4. kind = "Heap" => Ordered(memory'.slots, length')
    BY <1>1, <1>2, <1>3, SameOrder
  <1>5. Holds(memory', capacity', head', length') /\ Contents = RowOf(memory', capacity', head', length')
    BY <1>2, <1>3
  <1>6. IInv' /\ Row' = Contents
    BY <1>1, <1>2, <1>4, <1>5, WholeStep
  <1> QED
    BY <1>1, <1>2, <1>6, BecomesSo DEF Promised!Resize

\* reserve and shrinkToFit, whether they need another block or not.
LEMMA ResizeOp ==
    ASSUME IInv, Whole, UNCHANGED unshaped, ShrinkToFit \/ \E n \in Capacities : Reserve(n)
    PROVE  IInv' /\ Promised!Resize
  <1>1. length \in Nat /\ capacity \in Nat /\ length <= capacity
    BY WholeIs
  <1>2. ASSUME outcome' = <<"resize">>, UNCHANGED <<memory, capacity, length, head, live>>
        PROVE  IInv' /\ Promised!Resize
    BY <1>2, StaysSo DEF Promised!Resize
  <1>3. CASE ShrinkToFit
    <2>1. length <= length
      BY <1>1
    <2>2. Resized(length) \/ (outcome' = <<"resize">> /\ UNCHANGED <<memory, capacity, length, head, live>>)
      BY <1>3 DEF ShrinkToFit
    <2> QED
      BY <1>1, <1>2, <2>1, <2>2, ResizedOp
  <1>4. ASSUME NEW n \in Capacities, Reserve(n) PROVE IInv' /\ Promised!Resize
    <2>1. n \in Nat
      BY CollectionsConstants
    <2>2. CASE n <= capacity
      BY <1>2, <1>4, <2>2 DEF Reserve
    <2>3. CASE ~(n <= capacity)
      <3>1. Grown(n) \in Nat /\ Grown(n) >= n
        BY <1>1, <2>1, GrownIs
      <3> DEFINE g == Grown(n)
      <3>2. Resized(g)
        BY <1>4, <2>3 DEF Reserve
      <3>3. g \in Nat /\ length <= g
        <4> HIDE DEF g
        <4>1. g \in Nat /\ g >= n
          BY <3>1 DEF g
        <4> QED
          BY <1>1, <2>1, <2>3, <4>1
      <3> HIDE DEF g
      <3> QED
        BY <3>2, <3>3, ResizedOp
    <2> QED
      BY <2>2, <2>3
  <1> QED
    BY <1>3, <1>4

\* A value that is given was nowhere in the collection, or is a copy.
LEMMA GivenOnce ==
    ASSUME NEW s, live = Owned(s), Distinct(s), NEW v \in Offered
    PROVE  /\ v \in Values
           /\ \A t : /\ Range(t) = Range(s) \cup {v}
                     /\ IsInjective(s) /\ v \notin Range(s) => IsInjective(t)
                     => live \cup Given(v) = Owned(t) /\ Distinct(t)
  <1>1. CASE copied
    BY <1>1, CollectionsConstants DEF Offered, Owned, Distinct, Given
  <1>2. CASE ~copied
    BY <1>2 DEF Offered, Owned, Distinct, Given
  <1> QED
    BY <1>1, <1>2

\* push, enqueue and pushBack.
LEMMA AddLastOp ==
    ASSUME IInv, Whole, UNCHANGED unshaped, kind # "Heap", NEW v \in Offered, AddLast(v)
    PROVE  IInv' /\ v \in Values /\ Promised!AddLast(v)
  <1> DEFINE r == Roomy
             i == Pos(r.capacity, r.head, length)
             s == Contents
             t == Append(s, v)
  <1>1. /\ s = RowOf(memory, capacity, head, length) /\ Row = s
        /\ Holds(memory, capacity, head, length)
        /\ s \in Seq(Values)
        /\ live = Owned(s) /\ Distinct(s)
        /\ kind \in {"Array", "Heap"} => head = 0
    BY WholeIs
  <1>2. /\ memory' = Put(r.memory, i, v) /\ capacity' = r.capacity /\ head' = r.head
        /\ length' = length + 1
        /\ live' = (live \ Overwritten(r.memory, i)) \cup Given(v)
        /\ outcome' = <<"addLast", v>>
    BY DEF AddLast, Add, Pos
  <1> HIDE DEF r, s
  <1>3. /\ Holds(r.memory, r.capacity, r.head, length) /\ length < r.capacity
        /\ RowOf(r.memory, r.capacity, r.head, length) = s
        /\ head = 0 => r.head = 0
    BY <1>1, RoomyIs DEF r
  <1>4. v \in Values
    BY <1>1, GivenOnce
  <1>5. /\ ~r.memory.initialized[i]
        /\ Holds(Put(r.memory, i, v), r.capacity, r.head, length + 1)
        /\ RowOf(Put(r.memory, i, v), r.capacity, r.head, length + 1) = t
    BY <1>3, <1>4, PutLast
  <1>6. live' = live \cup Given(v)
    BY <1>2, <1>5 DEF Overwritten
  <1>7. Range(t) = Range(s) \cup {v} /\ (IsInjective(s) /\ v \notin Range(s) => IsInjective(t))
    BY <1>1, <1>4, AppendedValues
  <1>8. live' = Owned(t) /\ Distinct(t)
    BY <1>1, <1>6, <1>7, GivenOnce
  <1>9. t = RowOf(memory', capacity', head', length') /\ Holds(memory', capacity', head', length')
    BY <1>2, <1>5
  <1>10. kind \in {"Array", "Heap"} => head' = 0
    BY <1>1, <1>2, <1>3
  <1> HIDE DEF i, t
  <1>11. IInv' /\ Row' = t /\ t \in Seq(Values)
    BY <1>8, <1>9, <1>10, WholeStep
  <1>12. Promised!Becomes(t)
    BY <1>11, BecomesSo
  <1> QED
    BY <1>1, <1>2, <1>4, <1>11, <1>12 DEF Promised!AddLast, t

\* pushFront.
LEMMA PushFrontOp ==
    ASSUME IInv, Whole, PushFront
    PROVE  IInv' /\ \E v \in Values : Promised!AddFirst(v)
  <1> DEFINE r == Roomy
             i == IF length = 0 THEN 0 ELSE Before(r.head, r.capacity)
             s == Contents
  <1>1. /\ s = RowOf(memory, capacity, head, length) /\ Row = s
        /\ Holds(memory, capacity, head, length)
        /\ s \in Seq(Values)
        /\ live = Owned(s) /\ Distinct(s)
    BY WholeIs
  <1>2. PICK v \in Offered :
        /\ memory' = Put(r.memory, i, v) /\ capacity' = r.capacity /\ head' = i
        /\ length' = length + 1
        /\ live' = (live \ Overwritten(r.memory, i)) \cup Given(v)
        /\ outcome' = <<"addFirst", v>>
    BY DEF PushFront, Add
  <1>3. kind = "Deque" /\ UNCHANGED unshaped
    BY DEF PushFront, Call
  <1> DEFINE t == <<v>> \o s
  <1> HIDE DEF r, s
  <1>4. /\ Holds(r.memory, r.capacity, r.head, length) /\ length < r.capacity
        /\ RowOf(r.memory, r.capacity, r.head, length) = s
    BY <1>1, RoomyIs DEF r
  <1>5. v \in Values
    BY <1>1, GivenOnce
  <1>6. /\ ~r.memory.initialized[i]
        /\ Holds(Put(r.memory, i, v), r.capacity, i, length + 1)
        /\ RowOf(Put(r.memory, i, v), r.capacity, i, length + 1) = t
    BY <1>4, <1>5, PutFirst
  <1>7. live' = live \cup Given(v)
    BY <1>2, <1>6 DEF Overwritten
  <1>8. Range(t) = Range(s) \cup {v} /\ (IsInjective(s) /\ v \notin Range(s) => IsInjective(t))
    BY <1>1, <1>5, PrependedValues
  <1>9. live' = Owned(t) /\ Distinct(t)
    BY <1>1, <1>7, <1>8, GivenOnce
  <1>10. t = RowOf(memory', capacity', head', length') /\ Holds(memory', capacity', head', length')
    BY <1>2, <1>6
  <1> HIDE DEF i, t
  <1>11. IInv' /\ Row' = t /\ t \in Seq(Values)
    BY <1>3, <1>9, <1>10, WholeStep
  <1>12. Promised!Becomes(t)
    BY <1>11, BecomesSo
  <1> QED
    BY <1>1, <1>2, <1>5, <1>11, <1>12 DEF Promised!AddFirst, t

\* A value that leaves was the collection's, and is no more.
LEMMA LeavesOnce ==
    ASSUME NEW s \in Seq(Values), live = Owned(s), Distinct(s), NEW i \in 1 .. Len(s),
           NEW t, t = Promised!Without(s, i)
    PROVE  live \ {s[i]} = Owned(t) /\ Distinct(t)
  <1>1. CASE copied
    BY <1>1 DEF Owned, Distinct
  <1>2. CASE ~copied
    <2>1. IsInjective(s)
      BY <1>2 DEF Distinct
    <2>2. Range(t) = Range(s) \ {s[i]} /\ IsInjective(t)
      BY <2>1, RemainingValues
    <2> QED
      BY <1>2, <2>2 DEF Owned, Distinct
  <1> QED
    BY <1>1, <1>2

\* A call that finds nothing to take.
LEMMA NoneOp ==
    ASSUME IInv, Whole, UNCHANGED unshaped, NEW i, None(i)
    PROVE  /\ IInv'
           /\ length = 0 /\ i = 1 => Promised!RemoveNone
           /\ kind # "Heap" /\ i = length + 1 => Promised!Remove(i)
  <1>1. IInv' /\ Promised!Becomes(Row) /\ outcome' = <<"remove", i, Absent>>
    BY StaysSo DEF None
  <1>2. Row \in Seq(Values) /\ Len(Row) = length /\ length \in Nat
    BY WholeIs
  <1>3. length = 0 => Row = <<>>
    BY <1>2
  <1>4. i = length + 1 => i \notin DOMAIN Row
    BY <1>2
  <1> QED
    BY <1>1, <1>3, <1>4 DEF Promised!RemoveNone, Promised!Remove, Promised!At

\* The value in a place of the row is taken, and the rest keep their order.
LEMMA TakeOp ==
    ASSUME IInv, Whole, UNCHANGED unshaped, kind # "Heap", NEW n \in 1 .. length, NEW x,
           x = Contents[n], outcome' = <<"remove", n, x>>, live' = live \ {x},
           RowOf(memory', capacity', head', length') = Promised!Without(Contents, n),
           Holds(memory', capacity', head', length'), kind = "Array" => head' = 0
    PROVE  IInv' /\ Promised!Remove(n) /\ n \in 1 .. Len(Row)
  <1> DEFINE s == Contents
             t == Promised!Without(s, n)
  <1>1. s \in Seq(Values) /\ Len(s) = length /\ Row = s /\ live = Owned(s) /\ Distinct(s)
    BY WholeIs
  <1> HIDE DEF s
  <1>2. n \in 1 .. Len(s)
    BY <1>1
  <1>3. live' = Owned(t) /\ Distinct(t)
    BY <1>1, <1>2, LeavesOnce DEF s
  <1>4. t = RowOf(memory', capacity', head', length')
    BY DEF s
  <1> HIDE DEF t
  <1>5. IInv' /\ Row' = t /\ t \in Seq(Values)
    BY <1>3, <1>4, WholeStep
  <1>6. Promised!Becomes(t)
    BY <1>5, BecomesSo
  <1>7. n \in DOMAIN s
    BY <1>1, <1>2
  <1> QED
    BY <1>1, <1>2, <1>5, <1>6, <1>7 DEF Promised!Remove, Promised!At, s, t

\* dequeue, popFront and the iterators of the two rings.
LEMMA TakeFirstOp ==
    ASSUME IInv, Whole, UNCHANGED unshaped, kind \in {"Queue", "Deque"}, TakeFirst
    PROVE  IInv' /\ (Promised!RemoveNone \/ \E n \in 1 .. Len(Row) + 1 : Promised!Remove(n))
  <1>0. length \in Nat /\ Len(Row) = length
    BY WholeIs
  <1>1. CASE length = 0
    BY <1>1, NoneOp DEF TakeFirst
  <1>2. CASE length # 0
    <2> DEFINE g == Pos(capacity, head, 1)
    <2>1. /\ Contents = RowOf(memory, capacity, head, length)
          /\ Holds(memory, capacity, head, length)
      BY WholeIs
    <2>2. /\ outcome' = <<"remove", 1, memory.slots[head]>>
          /\ live' = live \ {memory.slots[head]}
          /\ head' = g /\ length' = length - 1 /\ capacity' = capacity
          /\ memory' = MovedOut(memory, head)
      BY <1>2 DEF TakeFirst, TakeOut, Pos
    <2> HIDE DEF g
    <2>3. /\ memory.slots[head] = Contents[1]
          /\ Holds(MovedOut(memory, head), capacity, g, length - 1)
          /\ RowOf(MovedOut(memory, head), capacity, g, length - 1) = Promised!Without(Contents, 1)
      BY <1>2, <2>1, TakeFromFront DEF g
    <2>4. 1 \in 1 .. length
      BY <1>0, <1>2
    <2>5. RowOf(memory', capacity', head', length') = Promised!Without(Contents, 1)
          /\ Holds(memory', capacity', head', length')
      BY <2>2, <2>3
    <2>6. IInv' /\ Promised!Remove(1)
      BY <2>2, <2>3, <2>4, <2>5, TakeOp
    <2>7. 1 \in 1 .. Len(Row) + 1
      BY <1>0
    <2> QED
      BY <2>6, <2>7
  <1> QED
    BY <1>1, <1>2

\* popBack.
LEMMA TakeLastOp ==
    ASSUME IInv, Whole, UNCHANGED unshaped, kind = "Deque", TakeLast
    PROVE  IInv' /\ (Promised!RemoveNone \/ \E n \in 1 .. Len(Row) + 1 : Promised!Remove(n))
  <1>0. length \in Nat /\ Len(Row) = length
    BY WholeIs
  <1>1. CASE length = 0
    BY <1>1, NoneOp DEF TakeLast
  <1>2. CASE length # 0
    <2> DEFINE i == Pos(capacity, head, length - 1)
    <2>1. /\ Contents = RowOf(memory, capacity, head, length)
          /\ Holds(memory, capacity, head, length)
      BY WholeIs
    <2>2. /\ outcome' = <<"remove", length, memory.slots[i]>>
          /\ live' = live \ {memory.slots[i]}
          /\ head' = head /\ length' = length - 1 /\ capacity' = capacity
          /\ memory' = MovedOut(memory, i)
      BY <1>2 DEF TakeLast, TakeOut, Slot, Pos
    <2> HIDE DEF i
    <2>3. /\ memory.slots[i] = Contents[length]
          /\ Holds(MovedOut(memory, i), capacity, head, length - 1)
          /\ RowOf(MovedOut(memory, i), capacity, head, length - 1) = Promised!Without(Contents, length)
      BY <1>2, <2>1, TakeFromBack DEF i
    <2>4. length \in 1 .. length /\ length \in 1 .. Len(Row) + 1
      BY <1>0, <1>2
    <2>5. RowOf(memory', capacity', head', length') = Promised!Without(Contents, length)
          /\ Holds(memory', capacity', head', length')
      BY <2>2, <2>3
    <2>6. ASSUME NEW n, n = length PROVE IInv' /\ Promised!Remove(n)
      <3>1. n \in 1 .. length /\ Contents[n] = Contents[length]
            /\ outcome' = <<"remove", n, memory.slots[i]>>
            /\ Promised!Without(Contents, n) = Promised!Without(Contents, length)
        BY <2>2, <2>4, <2>6
      <3> QED
        BY <2>2, <2>3, <2>5, <3>1, TakeOp
    <2> QED
      BY <2>4, <2>6
  <1> QED
    BY <1>1, <1>2

\* removeAt, and pop of an array.
LEMMA RemoveAtOp ==
    ASSUME IInv, Whole, UNCHANGED unshaped, kind = "Array", NEW i \in 0 .. length, RemoveAt(i)
    PROVE  IInv' /\ \E n \in 1 .. Len(Row) + 1 : Promised!Remove(n)
  <1>0. length \in Nat /\ Len(Row) = length /\ head = 0
        /\ Contents = RowOf(memory, capacity, 0, length)
        /\ Holds(memory, capacity, 0, length)
    BY WholeIs
  <1>1. CASE i >= length
    <2>1. i = length /\ None(i + 1)
      BY <1>0, <1>1 DEF RemoveAt
    <2>2. IInv' /\ Promised!Remove(i + 1)
      BY <2>1, NoneOp
    <2>3. i + 1 \in 1 .. Len(Row) + 1
      BY <1>0
    <2> QED
      BY <2>2, <2>3
  <1>2. CASE ~(i >= length)
    <2> DEFINE q == IF copied THEN memory ELSE MovedOut(memory, i)
    <2>1. i \in 0 .. length - 1
      BY <1>0, <1>2
    <2>2. /\ Holds(Closed(q, i), capacity, 0, length - 1)
          /\ RowOf(Closed(q, i), capacity, 0, length - 1) = Promised!Without(Contents, i + 1)
          /\ memory.slots[i] = Contents[i + 1]
          /\ i + 1 \in 1 .. length /\ (~copied => memory.initialized[i])
      BY <1>0, <2>1, GapCloses
    <2>3. /\ outcome' = <<"remove", i + 1, memory.slots[i]>>
          /\ live' = live \ {memory.slots[i]}
          /\ head' = head /\ length' = length - 1 /\ capacity' = capacity
          /\ memory' = Closed(q, i)
      BY <1>2, <2>2 DEF RemoveAt, TakeOut
    <2> HIDE DEF q
    <2>4. RowOf(memory', capacity', head', length') = Promised!Without(Contents, i + 1)
          /\ Holds(memory', capacity', head', length') /\ head' = 0
      BY <1>0, <2>2, <2>3
    <2>5. ASSUME NEW n, n = i + 1 PROVE IInv' /\ Promised!Remove(n)
      BY <2>2, <2>3, <2>4, <2>5, TakeOp
    <2>6. i + 1 \in 1 .. Len(Row) + 1
      BY <1>0, <2>2
    <2> QED
      BY <2>5, <2>6
  <1> QED
    BY <1>1, <1>2

\* set of an array: the value it replaces is destroyed.
LEMMA ArraySetOp ==
    ASSUME IInv, Whole, ArraySet
    PROVE  IInv' /\ \E n \in 1 .. Len(Row) + 1, v \in Values : Promised!Replace(n, v)
  <1>0. kind = "Array" /\ UNCHANGED unshaped
    BY DEF ArraySet, Call
  <1>1. /\ length \in Nat /\ Len(Row) = length /\ head = 0 /\ Row = Contents
        /\ Contents = RowOf(memory, capacity, 0, length) /\ Holds(memory, capacity, 0, length)
        /\ Contents \in Seq(Values) /\ Len(Contents) = length
        /\ live = Owned(Contents) /\ Distinct(Contents)
    BY <1>0, WholeIs
  <1>2. PICK i \in 0 .. length, v \in Offered :
          IF i >= length
          THEN /\ outcome' = <<"replace", i + 1, Absent>>
               /\ UNCHANGED <<memory, live>>
          ELSE /\ outcome' = <<"replace", i + 1, v>>
               /\ memory' = Put(memory, i, v)
               /\ live' = (live \ Overwritten(memory, i)) \cup Given(v)
    BY DEF ArraySet
  <1>3. UNCHANGED <<capacity, length, head>>
    BY DEF ArraySet
  <1>4. v \in Values
    BY <1>1, GivenOnce
  <1>5. i + 1 \in 1 .. Len(Row) + 1
    BY <1>1
  <1>6. CASE i >= length
    <2>1. IInv' /\ Promised!Becomes(Row) /\ outcome' = <<"replace", i + 1, Absent>>
      BY <1>0, <1>2, <1>3, <1>6, StaysSo
    <2>2. i + 1 \notin DOMAIN Row
      BY <1>1, <1>6
    <2>3. Promised!Replace(i + 1, v)
      BY <1>0, <2>1, <2>2 DEF Promised!Replace
    <2> QED
      BY <1>4, <1>5, <2>1, <2>3
  <1>7. CASE ~(i >= length)
    <2> DEFINE s == Contents
               t == [s EXCEPT ![i + 1] = v]
    <2>1. i \in 0 .. length - 1 /\ i + 1 \in 1 .. length
      BY <1>1, <1>7
    <2>2. /\ Holds(Put(memory, i, v), capacity, 0, length)
          /\ RowOf(Put(memory, i, v), capacity, 0, length) = t
          /\ Overwritten(memory, i) = IF copied THEN {} ELSE {s[i + 1]}
      <3>1. Holds(memory, capacity, 0, length)
        BY <1>1
      <3>2. ASSUME NEW j \in 0 .. length - 1
            PROVE  /\ Holds(Put(memory, j, v), capacity, 0, length)
                   /\ RowOf(Put(memory, j, v), capacity, 0, length)
                         = [RowOf(memory, capacity, 0, length) EXCEPT ![j + 1] = v]
                   /\ Overwritten(memory, j)
                         = IF copied THEN {} ELSE {RowOf(memory, capacity, 0, length)[j + 1]}
        BY <1>4, <3>1, Replaced
      <3>3. Contents = RowOf(memory, capacity, 0, length)
        BY <1>1
      <3> QED
        BY <2>1, <3>2, <3>3
    <2>3. /\ outcome' = <<"replace", i + 1, v>> /\ memory' = Put(memory, i, v)
          /\ live' = (live \ Overwritten(memory, i)) \cup Given(v)
          /\ capacity' = capacity /\ length' = length /\ head' = 0
      BY <1>1, <1>2, <1>3, <1>7
    <2> HIDE DEF s
    <2>4. s \in Seq(Values) /\ i + 1 \in 1 .. Len(s) /\ live = Owned(s) /\ Distinct(s)
      BY <1>1, <2>1 DEF s
    <2>5. live' = Owned(t) /\ Distinct(t)
      <3>1. CASE copied
        BY <2>2, <2>3, <2>4, <3>1 DEF Owned, Distinct, Given
      <3>2. CASE ~copied
        <4>1. IsInjective(s) /\ live = Range(s) /\ v \notin Range(s)
          BY <2>4, <3>2 DEF Owned, Distinct, Offered
        <4>2. Range(t) = (Range(s) \ {s[i + 1]}) \cup {v} /\ IsInjective(t)
          <5>1. ASSUME NEW n, n \in 1 .. Len(s)
                PROVE  /\ Range([s EXCEPT ![n] = v]) = (Range(s) \ {s[n]}) \cup {v}
                       /\ IsInjective([s EXCEPT ![n] = v])
            BY <1>4, <2>4, <4>1, <5>1, ReplacedValues
          <5> QED
            BY <2>4, <5>1
        <4>3. live' = (live \ {s[i + 1]}) \cup {v}
          BY <2>2, <2>3, <3>2 DEF Given
        <4> QED
          BY <3>2, <4>1, <4>2, <4>3 DEF Owned, Distinct
      <3> QED
        BY <3>1, <3>2
    <2>6. t = RowOf(memory', capacity', head', length') /\ Holds(memory', capacity', head', length')
      BY <2>2, <2>3
    <2>7. i + 1 \in DOMAIN s
      BY <2>4
    <2> HIDE DEF t
    <2>8. IInv' /\ Row' = t /\ t \in Seq(Values)
      BY <1>0, <2>3, <2>5, <2>6, WholeStep
    <2>9. Promised!Becomes(t)
      BY <2>8, BecomesSo
    <2>10. Promised!Replace(i + 1, v)
      BY <1>0, <1>1, <2>3, <2>7, <2>9 DEF Promised!Replace, s, t
    <2> QED
      BY <1>4, <1>5, <2>8, <2>10
  <1> QED
    BY <1>6, <1>7

\* A call that looks at one value.
LEMMA LookOp ==
    ASSUME IInv, Whole, UNCHANGED unshaped, kind # "Heap", NEW n \in 1 .. length + 1,
           NEW there \in BOOLEAN, NEW i, there <=> n <= length,
           there => memory.slots[i] = Contents[n], Look(n, there, i)
    PROVE  IInv' /\ Promised!Look(n) /\ n \in 1 .. Len(Row) + 1
  <1>1. IInv' /\ Promised!Becomes(Row)
    BY StaysSo DEF Look
  <1>2. Row = Contents /\ Row \in Seq(Values) /\ Len(Row) = length /\ length \in Nat
    BY WholeIs
  <1>3. n \in DOMAIN Row <=> there
    BY <1>2
  <1>4. outcome' = <<"look", n, Promised!At(n)>>
    BY <1>2, <1>3 DEF Look, Promised!At
  <1> QED
    BY <1>1, <1>2, <1>4 DEF Promised!Look

\* The k-th value of the row is in the k-th slot from the first one on.
LEMMA InItsSlot ==
    ASSUME IInv, Whole, NEW n \in 1 .. length
    PROVE  Contents[n] = memory.slots[Slot(n - 1)]
  <1>1. Contents = RowOf(memory, capacity, head, length) /\ Holds(memory, capacity, head, length)
        /\ length \in Nat
    BY WholeIs
  <1>2. n - 1 \in 0 .. length - 1 /\ (n - 1) + 1 = n
    BY <1>1
  <1>3. \A k \in 0 .. length - 1 : Contents[k + 1] = memory.slots[Pos(capacity, head, k)]
    BY <1>1, RowIs
  <1>4. Contents[(n - 1) + 1] = memory.slots[Pos(capacity, head, n - 1)]
    BY <1>2, <1>3
  <1> QED
    BY <1>2, <1>4 DEF Slot, Pos

\* The value at the head, and those of a block that begins in front.
LEMMA AtFront ==
    ASSUME IInv, Whole
    PROVE  /\ length # 0 => memory.slots[head] = Contents[1]
           /\ head = 0 => \A n \in 1 .. length : memory.slots[n - 1] = Contents[n]
  <1>1. Contents = RowOf(memory, capacity, head, length) /\ Holds(memory, capacity, head, length)
        /\ length \in Nat
    BY WholeIs
  <1>2. head = 0 => \A n \in 1 .. length : memory.slots[n - 1] = Contents[n]
    BY <1>1, InFront
  <1>3. length # 0 => memory.slots[head] = Contents[1]
    <2> SUFFICES ASSUME length # 0 PROVE memory.slots[head] = Contents[1]
      OBVIOUS
    <2>1. \A g : g = Pos(capacity, head, 1) => memory.slots[head] = RowOf(memory, capacity, head, length)[1]
      BY <1>1, TakeFromFront
    <2> QED
      BY <1>1, <2>1
  <1> QED
    BY <1>2, <1>3

\* clear.
LEMMA ClearedOp ==
    ASSUME IInv, Whole, UNCHANGED unshaped,
           NEW k, k = capacity \/ (kind = "Array" /\ k = length), Cleared(k)
    PROVE  IInv' /\ Promised!Clear
  <1>1. /\ Contents = RowOf(memory, capacity, head, length)
        /\ Holds(memory, capacity, head, length)
        /\ live = Owned(Contents)
        /\ length \in Nat /\ capacity \in Nat /\ length <= capacity
        /\ kind \in {"Array", "Heap"} => head = 0
    BY WholeIs
  <1>2. k \in 0 .. capacity /\ \A i \in 0 .. capacity - 1 : memory.initialized[i] => i < k
    <2>1. CASE k = capacity
      BY <1>1, <2>1
    <2>2. CASE kind = "Array" /\ k = length
      <3>1. Holds(memory, capacity, 0, length)
        BY <1>1, <2>2
      <3>2. \A i \in 0 .. capacity - 1 : memory.initialized[i] <=> ~copied /\ i < length
        BY <3>1, InFront
      <3> QED
        BY <1>1, <2>2, <3>2
    <2> QED
      BY <2>1, <2>2
  <1>3. /\ Holds(Emptied(memory, k), capacity, 0, 0)
        /\ Destroyed(memory, k) = IF copied THEN {} ELSE Range(Contents)
    BY <1>1, <1>2, EmptiedIs
  <1>4. /\ memory' = Emptied(memory, k) /\ live' = live \ Destroyed(memory, k)
        /\ length' = 0 /\ head' = 0 /\ capacity' = capacity /\ outcome' = <<"clear">>
    BY DEF Cleared, Drop
  <1> DEFINE t == <<>>
  <1>5. Holds(memory', capacity', head', length') /\ t = RowOf(memory', capacity', head', length')
    <2>1. RowOf(Emptied(memory, k), capacity, 0, 0) = <<>>
      BY <1>3, NothingHeld
    <2> QED
      BY <1>3, <1>4, <2>1
  <1>6. live' = Owned(t) /\ Distinct(t)
    BY <1>1, <1>3, <1>4 DEF Owned, Distinct, Range, IsInjective
  <1>7. Ordered(memory'.slots, length')
    BY <1>4 DEF Ordered
  <1> HIDE DEF t
  <1>8. IInv' /\ Row' = t /\ t \in Seq(Values)
    BY <1>4, <1>5, <1>6, <1>7, WholeStep
  <1>9. Promised!Becomes(t)
    BY <1>8, BecomesSo
  <1> QED
    BY <1>4, <1>8, <1>9 DEF Promised!Clear, t

\* A collection becomes an iterator as it is.
LEMMA IntoIteratorOp ==
    ASSUME IInv, IntoIterator
    PROVE  IInv' /\ kind' = kind /\ Row' = Row /\ outcome' = outcome
  <1>1. /\ phase = "open" /\ phase' = "iterating"
        /\ kind' = kind /\ copied' = copied /\ memory' = memory /\ capacity' = capacity
        /\ length' = length /\ head' = head /\ cursor' = cursor /\ live' = live
        /\ outcome' = outcome
    BY DEF IntoIterator
  <1>2. Size' = Size /\ First' = First
    BY <1>1 DEF Size, First
  <1>3. Shape'
    BY <1>1 DEF IInv, Shape
  <1>4. /\ Holds(memory, capacity, First, Size) /\ live = Owned(Contents) /\ Distinct(Contents)
        /\ kind = "Heap" => Ordered(memory.slots, Size)
    BY DEF IInv
  <1>5. ASSUME NEW g, NEW n, NEW t, g = First, n = Size, t = Contents PROVE IInv' /\ Row' = t
    <2>1. g = First' /\ n = Size'
      BY <1>2, <1>5
    <2>2. t = RowOf(memory', capacity', g, n) /\ Holds(memory', capacity', g, n)
      BY <1>1, <1>4, <1>5 DEF Contents
    <2>3. live' = Owned(t) /\ Distinct(t) /\ (kind = "Heap" => Ordered(memory'.slots, n))
      BY <1>1, <1>4, <1>5
    <2> QED
      BY <1>1, <1>3, <2>1, <2>2, <2>3, Follows
  <1> QED
    BY <1>1, <1>5, RowIsContents

\* The iterator of an array, which leaves its length as it is.
LEMMA ArrayIteratorOp ==
    ASSUME IInv, ArrayIteratorNext
    PROVE  /\ IInv' /\ kind' = kind
           /\ Promised!RemoveNone \/ \E n \in 1 .. Len(Row) + 1 : Promised!Remove(n)
  <1>1. /\ kind = "Array" /\ phase = "iterating"
        /\ kind' = kind /\ copied' = copied /\ phase' = phase
        /\ cursor <= length /\ cursor' = cursor + 1
    BY DEF ArrayIteratorNext, Step
  <1>2. /\ cursor \in Nat /\ length \in Nat /\ length <= capacity /\ head = 0
        /\ Holds(memory, capacity, First, Size) /\ live = Owned(Contents) /\ Distinct(Contents)
        /\ capacity \in Nat
    BY <1>1 DEF IInv, Shape, Holds
  <1>3. Contents \in Seq(Values) /\ Len(Contents) = Size /\ Row = Contents
    BY ContentsAre, RowIsContents
  <1>4. CASE cursor >= length
    <2>1. None(1)
      BY <1>4 DEF ArrayIteratorNext
    <2>2. /\ outcome' = <<"remove", 1, Absent>> /\ memory' = memory /\ capacity' = capacity
          /\ length' = length /\ head' = head /\ live' = live
      BY <2>1 DEF None
    <2>3. Size = 0 /\ Size' = 0 /\ First' = 0
      BY <1>1, <1>2, <1>4, <2>2 DEF Size, First
    <2>4. Holds(memory, capacity, 0, 0) /\ RowOf(memory, capacity, 0, 0) = <<>> /\ Contents = <<>>
      <3>1. Holds(memory, capacity, First, 0)
        BY <1>2, <2>3
      <3>2. Holds(memory, capacity, 0, 0)
        BY <1>2, <3>1, NothingHeld
      <3>3. RowOf(memory, capacity, 0, 0) = <<>> /\ RowOf(memory, capacity, First, 0) = <<>>
        BY <3>1, <3>2, NothingHeld
      <3> QED
        BY <2>3, <3>2, <3>3 DEF Contents
    <2>5. Shape'
      BY <1>1, <1>2, <2>2 DEF IInv, Shape
    <2>6. IInv' /\ Row' = <<>>
      <3> DEFINE t == <<>>
      <3>1. t = RowOf(memory', capacity', 0, 0) /\ Holds(memory', capacity', 0, 0)
            /\ live' = Owned(t) /\ Distinct(t)
        BY <1>2, <2>2, <2>4
      <3>2. kind # "Heap"
        BY <1>1
      <3> HIDE DEF t
      <3>3. IInv' /\ Row' = t
        BY <1>1, <2>3, <2>5, <3>1, <3>2, Follows
      <3> QED
        BY <3>3 DEF t
    <2>7. Promised!RemoveNone
      BY <1>1, <1>3, <2>2, <2>4, <2>6 DEF Promised!RemoveNone, Promised!Becomes
    <2> QED
      BY <1>1, <2>6, <2>7
  <1>5. CASE ~(cursor >= length)
    <2>1. /\ outcome' = <<"remove", 1, memory.slots[cursor]>> /\ memory' = MovedOut(memory, cursor)
          /\ live' = live \ {memory.slots[cursor]}
          /\ capacity' = capacity /\ length' = length /\ head' = head
      BY <1>5 DEF ArrayIteratorNext
    <2> DEFINE n == length - cursor
               g == Pos(capacity, cursor, 1)
               h == IF cursor + 1 < length THEN cursor + 1 ELSE 0
               t == Promised!Without(Contents, 1)
               q == MovedOut(memory, cursor)
    <2>2. Size = n /\ First = cursor /\ Size' = n - 1 /\ First' = h /\ n # 0 /\ n \in Nat
      <3>1. Size = n /\ First = cursor /\ n # 0 /\ n \in Nat
        BY <1>1, <1>2, <1>5 DEF Size, First
      <3>2. First' = h
        BY <1>1, <1>2, <2>1 DEF First
      <3>3. Size' = IF cursor + 1 >= length THEN 0 ELSE length - (cursor + 1)
        BY <1>1, <2>1 DEF Size
      <3> QED
        BY <1>2, <1>5, <3>1, <3>2, <3>3
    <2>3. Holds(memory, capacity, cursor, n) /\ Contents = RowOf(memory, capacity, cursor, n)
      BY <1>2, <2>2 DEF Contents
    <2>4. capacity \in Nat \ {0} /\ cursor \in 0 .. capacity - 1 /\ 1 \in 0 .. capacity
      BY <1>2, <1>5
    <2>5. g = IF cursor + 1 < capacity THEN cursor + 1 ELSE cursor + 1 - capacity
      BY <2>4, PosIs
    <2> HIDE DEF n, g, q, t
    <2>6. /\ memory.slots[cursor] = Contents[1]
          /\ Holds(q, capacity, g, n - 1)
          /\ RowOf(q, capacity, g, n - 1) = t
      BY <2>2, <2>3, TakeFromFront DEF q, g, t
    <2>7. Holds(q, capacity, h, n - 1) /\ RowOf(q, capacity, h, n - 1) = t
      <3>1. CASE cursor + 1 < length
        <4>1. g = h
          BY <1>2, <2>5, <3>1
        <4> QED
          BY <2>6, <4>1
      <3>2. CASE ~(cursor + 1 < length)
        <4>1. n - 1 = 0 /\ h = 0
          BY <1>2, <1>5, <3>2 DEF n
        <4>2. Holds(q, capacity, g, 0) /\ RowOf(q, capacity, g, 0) = t
          BY <2>6, <4>1
        <4>3. Holds(q, capacity, 0, 0)
          BY <2>4, <4>2, NothingHeld
        <4>4. RowOf(q, capacity, g, 0) = <<>> /\ RowOf(q, capacity, 0, 0) = <<>>
          BY <4>2, <4>3, NothingHeld
        <4> QED
          BY <4>1, <4>2, <4>3, <4>4
      <3> QED
        BY <3>1, <3>2
    <2>8. 1 \in 1 .. Len(Contents)
      BY <1>3, <2>2
    <2>9. live' = Owned(t) /\ Distinct(t)
      BY <1>2, <1>3, <2>1, <2>6, <2>8, LeavesOnce DEF t
    <2>10. Shape'
      BY <1>1, <1>2, <2>1 DEF IInv, Shape
    <2> HIDE DEF h
    <2>11. IInv' /\ Row' = t
      <3>1. t = RowOf(memory', capacity', h, n - 1) /\ Holds(memory', capacity', h, n - 1)
        BY <2>1, <2>7 DEF q
      <3>2. ASSUME NEW k, k = n - 1 PROVE IInv' /\ Row' = t
        <4>1. t = RowOf(memory', capacity', h, k) /\ Holds(memory', capacity', h, k) /\ k = Size'
          BY <2>2, <3>1, <3>2
        <4>2. kind # "Heap"
          BY <1>1
        <4> QED
          BY <1>1, <2>2, <2>9, <2>10, <4>1, <4>2, Follows
      <3> QED
        BY <3>2
    <2>12. Promised!Becomes(t)
      BY <1>1, <2>11 DEF Promised!Becomes
    <2>13. 1 \in DOMAIN Row /\ 1 \in 1 .. Len(Row) + 1
      BY <1>3, <2>8
    <2>14. Promised!Remove(1)
      BY <1>1, <1>3, <2>1, <2>6, <2>12, <2>13 DEF Promised!Remove, Promised!At, t
    <2> QED
      BY <1>1, <2>11, <2>13, <2>14
  <1> QED
    BY <1>4, <1>5

\* [Symbol.dispose], whatever an iterator has taken before.
LEMMA DisposedOp ==
    ASSUME IInv, NEW k, k = capacity \/ (kind = "Array" /\ k = length), Disposed(k)
    PROVE  IInv' /\ kind' = kind /\ Promised!Clear
  <1>1. /\ phase' = "gone" /\ memory' = Emptied(memory, k) /\ live' = live \ Destroyed(memory, k)
        /\ outcome' = <<"clear">> /\ kind' = kind /\ copied' = copied /\ capacity' = capacity
        /\ length' = length /\ head' = head /\ cursor' = cursor
    BY DEF Disposed, Drop
  <1>2. /\ cursor \in Nat /\ length \in Nat /\ length <= capacity /\ capacity \in Nat
        /\ Holds(memory, capacity, First, Size) /\ live = Owned(Contents)
        /\ kind = "Array" => head = 0
    BY DEF IInv, Shape, Holds
  <1>3. k \in 0 .. capacity /\ \A i \in 0 .. capacity - 1 : memory.initialized[i] => i < k
    <2>1. CASE k = capacity
      BY <1>2, <2>1
    <2>2. CASE kind = "Array" /\ k = length
      <3>1. ASSUME NEW i \in 0 .. capacity - 1, memory.initialized[i] PROVE i < length
        <4>1. i \in Window(capacity, First, Size)
          BY <1>2, <3>1 DEF Holds
        <4>2. PICK j \in 0 .. Size - 1 : i = Pos(capacity, First, j)
          BY <4>1 DEF Window
        <4>3. Size = length - cursor /\ First = cursor /\ cursor < length
          BY <1>2, <2>2, <4>2 DEF Size, First
        <4>4. capacity \in Nat \ {0} /\ cursor \in 0 .. capacity - 1 /\ j \in 0 .. capacity
              /\ cursor + j < length /\ j \in 0 .. length - cursor - 1
          BY <1>2, <4>2, <4>3
        <4>5. Pos(capacity, cursor, j) = IF cursor + j < capacity THEN cursor + j
                                         ELSE cursor + j - capacity
          BY <4>4, PosIs
        <4>6. cursor + j < capacity
          BY <1>2, <4>4
        <4> QED
          BY <4>2, <4>3, <4>4, <4>5, <4>6
      <3> QED
        BY <1>2, <2>2, <3>1
    <2> QED
      BY <2>1, <2>2
  <1>4. /\ Holds(Emptied(memory, k), capacity, 0, 0)
        /\ Destroyed(memory, k) = IF copied THEN {} ELSE Range(Contents)
    BY <1>2, <1>3, EmptiedIs DEF Contents
  <1>5. Size' = 0 /\ First' = First
    BY <1>1 DEF Size, First
  <1>6. Holds(Emptied(memory, k), capacity, First, 0)
    <2>1. First \in Nat /\ (capacity = 0 => First = 0) /\ (capacity # 0 => First < capacity)
      BY <1>2 DEF Holds
    <2> QED
      BY <1>4, <2>1, NothingHeld
  <1>7. Shape'
    BY <1>1 DEF IInv, Shape
  <1> DEFINE t == <<>>
  <1>8. live' = Owned(t) /\ Distinct(t)
    BY <1>1, <1>2, <1>4 DEF Owned, Distinct, Range, IsInjective
  <1>9. ASSUME NEW g, g = First PROVE IInv' /\ Row' = t
    <2>1. Holds(memory', capacity', g, 0) /\ t = RowOf(memory', capacity', g, 0)
      <3>1. RowOf(Emptied(memory, k), capacity, First, 0) = <<>>
        BY <1>6, NothingHeld
      <3> QED
        BY <1>1, <1>6, <1>9, <3>1
    <2>2. Ordered(memory'.slots, 0)
      BY DEF Ordered
    <2>3. g = First'
      BY <1>5, <1>9
    <2> HIDE DEF t
    <2> QED
      BY <1>1, <1>5, <1>7, <1>8, <2>1, <2>2, <2>3, Follows
  <1>10. IInv' /\ Row' = t /\ t \in Seq(Values)
    BY <1>9
  <1>11. Promised!Becomes(t)
    BY <1>10, BecomesSo
  <1> QED
    BY <1>1, <1>10, <1>11 DEF Promised!Clear

\* A heap's first value is a least one.
LEMMA FirstIsLeast ==
    ASSUME IInv, Whole, kind = "Heap", length # 0
    PROVE  /\ Contents # <<>> /\ 1 \in Promised!Least(Contents)
           /\ Contents[1] = memory.slots[0] /\ 1 \in 1 .. Len(Contents)
  <1>1. /\ Contents \in Seq(Values) /\ Len(Contents) = length /\ length \in Nat \ {0}
        /\ head = 0 /\ Ordered(memory.slots, length)
        /\ Holds(memory, capacity, 0, length)
    BY WholeIs
  <1>2. \A n \in 1 .. length : memory.slots[n - 1] = Contents[n]
    BY <1>1, AtFront
  <1>3. \A k \in 0 .. length - 1 : memory.slots[k] \in Values
    BY <1>1, InFront
  <1>4. \A k \in 0 .. length - 1 : Rank[memory.slots[0]] <= Rank[memory.slots[k]]
    BY <1>1, <1>3, RootIsLeast
  <1>5. \A n \in 1 .. length : n - 1 \in 0 .. length - 1
    BY <1>1
  <1>6. 1 \in 1 .. length /\ 1 - 1 = 0
    BY <1>1
  <1>7. Contents[1] = memory.slots[0]
    BY <1>2, <1>6
  <1>8. \A n \in 1 .. length : Rank[Contents[1]] <= Rank[Contents[n]]
    BY <1>2, <1>4, <1>5, <1>7
  <1>9. DOMAIN Contents = 1 .. length
    BY <1>1
  <1>10. Contents # <<>>
    BY <1>1
  <1> QED
    BY <1>1, <1>6, <1>7, <1>8, <1>9, <1>10 DEF Promised!Least

\* peek of a heap.
LEMMA HeapPeekOp ==
    ASSUME IInv, Whole, HeapPeek
    PROVE  IInv' /\ Promised!LookLeast
  <1>1. kind = "Heap" /\ UNCHANGED unshaped /\ Look(1, length # 0, 0)
    BY DEF HeapPeek, Call
  <1>2. IInv' /\ Promised!Becomes(Row) /\ outcome' = <<"look", 1, IF length # 0 THEN memory.slots[0] ELSE Absent>>
    BY <1>1, StaysSo DEF Look
  <1>3. Row = Contents /\ Contents \in Seq(Values) /\ Len(Contents) = length
    BY WholeIs
  <1>4. CASE length = 0
    <2>1. Row = <<>>
      BY <1>3, <1>4
    <2> QED
      BY <1>1, <1>2, <1>4, <2>1 DEF Promised!LookLeast
  <1>5. CASE length # 0
    BY <1>1, <1>2, <1>3, <1>5, FirstIsLeast DEF Promised!LookLeast
  <1> QED
    BY <1>4, <1>5

\* push of a heap.
LEMMA HeapPushOp ==
    ASSUME IInv, Whole, HeapPush
    PROVE  IInv' /\ \E v \in Values : Promised!AddLast(v)
  <1> DEFINE r == Roomy
             s == Contents
  <1>1. /\ s = RowOf(memory, capacity, 0, length) /\ Row = s /\ head = 0
        /\ Holds(memory, capacity, 0, length) /\ Ordered(memory.slots, length)
        /\ s \in Seq(Values) /\ length \in Nat
        /\ live = Owned(s) /\ Distinct(s)
    BY WholeIs DEF HeapPush, Call
  <1>2. PICK v \in Offered :
        LET m == Put(r.memory, length, v)
        IN  /\ memory' = [m EXCEPT !.slots = Sifted(@, Rises(@, v, length))]
            /\ capacity' = r.capacity
            /\ live' = (live \ Overwritten(r.memory, length)) \cup Given(v)
            /\ outcome' = <<"addLast", v>>
    BY DEF HeapPush
  <1>3. kind = "Heap" /\ UNCHANGED unshaped /\ length' = length + 1 /\ head' = 0
    BY <1>1 DEF HeapPush, Call
  <1> DEFINE m == Put(r.memory, length, v)
             n == length + 1
             u == Append(s, v)
             p == Rises(m.slots, v, length)
             q == [m EXCEPT !.slots = Sifted(m.slots, p)]
             c == r.capacity
  <1>4. memory' = q /\ capacity' = c
        /\ live' = (live \ Overwritten(r.memory, length)) \cup Given(v)
        /\ outcome' = <<"addLast", v>>
    BY <1>2
  <1> HIDE DEF r, s
  <1>5. /\ Holds(r.memory, c, 0, length) /\ length < c
        /\ RowOf(r.memory, c, 0, length) = s
    BY <1>1, RoomyIs DEF r
  <1>6. v \in Values
    BY <1>1, GivenOnce
  <1>7. c \in Nat /\ r.memory \in Blocks(c) /\ length \in 0 .. c - 1
    BY <1>1, <1>5 DEF Holds
  <1>8. length = Pos(c, 0, length)
    <2>1. c \in Nat \ {0} /\ 0 \in 0 .. c - 1
      BY <1>7
    <2> QED
      BY <1>7, <2>1, PosFacts
  <1>9. /\ ~r.memory.initialized[length]
        /\ Holds(m, c, 0, n)
        /\ RowOf(m, c, 0, n) = u
    BY <1>5, <1>6, <1>8, PutLast
  <1>10. \A j \in 0 .. c - 1 : m.slots[j] = IF j = length THEN v ELSE r.memory.slots[j]
    BY <1>6, <1>7, PutIs
  <1>11. n \in Nat \ {0} /\ n - 1 = length /\ n <= c
    BY <1>1, <1>7
  <1> HIDE DEF m, c, q, p, n
  <1>12. Ordered(m.slots, length)
    <2>1. Ordered(r.memory.slots, length)
      BY <1>1, <1>5, SameOrder
    <2>2. ASSUME NEW k \in 1 .. length - 1
          PROVE  m.slots[k] = r.memory.slots[k] /\ m.slots[Parent(k)] = r.memory.slots[Parent(k)]
      <3>1. k \in Nat \ {0} /\ k < length
        BY <1>1
      <3>2. Parent(k) \in Nat /\ Parent(k) < k
        BY <3>1, AroundIs
      <3>3. k \in 0 .. c - 1 /\ k # length /\ Parent(k) \in 0 .. c - 1 /\ Parent(k) # length
        BY <1>7, <3>1, <3>2
      <3> QED
        BY <1>10, <3>3
    <2> QED
      BY <2>1, <2>2 DEF Ordered
  <1>13. m.slots[n - 1] = v
    BY <1>7, <1>10, <1>11
  <1>14. Passes(p, n)
    <2>1. /\ p \in Seq(0 .. length) /\ Len(p) >= 1
          /\ \A a, b \in 1 .. Len(p) : a < b => p[b] < p[a]
      BY <1>1, RisesIs DEF p
    <2>2. \A a \in 1 .. Len(p) : p[a] \in 0 .. length
      BY <2>1, ElementOfSeq
    <2>3. \A i, j \in 1 .. Len(p) : p[i] = p[j] => i = j
      BY <2>1, <2>2
    <2> QED
      BY <1>11, <2>1, <2>3 DEF Passes
  <1>15. Holds(q, c, 0, n) /\ Permuted(RowOf(q, c, 0, n), u) /\ Moved(q.slots, m.slots, p, n)
    <2>1. ASSUME NEW b, b = [m EXCEPT !.slots = Sifted(m.slots, p)]
          PROVE  /\ Holds(b, c, 0, n)
                 /\ Permuted(RowOf(b, c, 0, n), RowOf(m, c, 0, n))
                 /\ Moved(b.slots, m.slots, p, n)
      BY <1>9, <1>14, <2>1, SiftKeeps
    <2> QED
      BY <1>9, <2>1 DEF q
  <1>16. Ordered(q.slots, n)
    <2>1. \A k \in 0 .. n - 1 : m.slots[k] \in Values
      BY <1>9, InFront
    <2>2. p = Rises(m.slots, m.slots[n - 1], n - 1) /\ Ordered(m.slots, n - 1)
      BY <1>11, <1>12, <1>13 DEF p
    <2>3. ASSUME NEW a, NEW b, a = m.slots, Moved(b, a, p, n) PROVE Ordered(b, n)
      BY <1>11, <2>1, <2>2, <2>3, RiseOrders
    <2> QED
      BY <1>15, <2>3
  <1> DEFINE t == RowOf(q, c, 0, n)
  <1>17. u \in Seq(Values) /\ t \in Seq(Values)
    BY <1>1, <1>6, <1>15, RowIs
  <1>18. Range(u) = Range(s) \cup {v} /\ (IsInjective(s) /\ v \notin Range(s) => IsInjective(u))
    BY <1>1, <1>6, AppendedValues
  <1> HIDE DEF u, t
  <1>19. Range(t) = Range(u) /\ (IsInjective(u) => IsInjective(t))
    BY <1>15, <1>17, PermutedSame DEF t
  <1>20. live' = live \cup Given(v)
    BY <1>4, <1>9 DEF Overwritten
  <1>21. live' = Owned(t) /\ Distinct(t)
    <2>1. Range(t) = Range(s) \cup {v} /\ (IsInjective(s) /\ v \notin Range(s) => IsInjective(t))
      BY <1>18, <1>19
    <2> QED
      BY <1>1, <1>20, <2>1, GivenOnce
  <1>22. /\ t = RowOf(memory', capacity', head', length') /\ Holds(memory', capacity', head', length')
         /\ Ordered(memory'.slots, length')
    BY <1>3, <1>4, <1>15, <1>16 DEF t, n
  <1>23. IInv' /\ Row' = t
    BY <1>3, <1>21, <1>22, WholeStep
  <1>24. Promised!Becomes(u)
    BY <1>3, <1>15, <1>17, <1>23, BecomesSo DEF t
  <1> QED
    BY <1>1, <1>4, <1>6, <1>23, <1>24 DEF Promised!AddLast, u

\* The value of slot n is in the first slot, and those between are where they were.
Rooted(s, t, n) == t[0] = s[n] /\ \A k \in 1 .. n - 1 : t[k] = s[k]

\* The last value has gone to the root, and the others are where they were.
LEMMA RootReplaced ==
    ASSUME NEW c, NEW n, n \in Nat \ {0}, Holds(memory, c, 0, n + 1), NEW v, v = memory.slots[n],
           NEW m, m = Put(MovedOut(MovedOut(memory, 0), n), 0, v)
    PROVE  /\ Holds(m, c, 0, n) /\ Rooted(memory.slots, m.slots, n)
           /\ Permuted(RowOf(m, c, 0, n), Promised!Without(RowOf(memory, c, 0, n + 1), 1))
  <1>1. /\ c \in Nat /\ n + 1 <= c /\ memory \in Blocks(c)
        /\ \A k \in 0 .. n : memory.slots[k] \in Values
        /\ \A j \in 0 .. c - 1 : memory.initialized[j] <=> ~copied /\ j < n + 1
    <2>1. /\ c \in Nat /\ n + 1 \in 0 .. c /\ memory \in Blocks(c)
          /\ \A k \in 0 .. (n + 1) - 1 : memory.slots[k] \in Values
          /\ \A j \in 0 .. c - 1 : memory.initialized[j] <=> ~copied /\ j < n + 1
      BY InFront
    <2>2. (n + 1) - 1 = n
      OBVIOUS
    <2> QED
      BY <2>1, <2>2
  <1>2. 0 \in 0 .. c - 1 /\ n \in 0 .. c - 1 /\ v \in Values
    BY <1>1
  <1> DEFINE a == MovedOut(memory, 0)
             b == MovedOut(a, n)
  <1>3. /\ a \in Blocks(c)
        /\ \A j \in 0 .. c - 1 : j # 0 => a.slots[j] = memory.slots[j]
        /\ copied => a = memory
        /\ ~copied => \A j \in 0 .. c - 1 : a.initialized[j] <=> j # 0 /\ memory.initialized[j]
    BY <1>1, <1>2, TakenIs
  <1> HIDE DEF a
  <1>4. /\ b \in Blocks(c)
        /\ \A j \in 0 .. c - 1 : j # n => b.slots[j] = a.slots[j]
        /\ copied => b = a
        /\ ~copied => \A j \in 0 .. c - 1 : b.initialized[j] <=> j # n /\ a.initialized[j]
    BY <1>1, <1>2, <1>3, TakenIs
  <1> HIDE DEF b
  <1>5. /\ m \in Blocks(c)
        /\ \A j \in 0 .. c - 1 : m.slots[j] = IF j = 0 THEN v ELSE b.slots[j]
        /\ copied => m.initialized = b.initialized
        /\ ~copied => \A j \in 0 .. c - 1 : m.initialized[j] <=> j = 0 \/ b.initialized[j]
    <2>1. m = Put(b, 0, v)
      BY DEF a, b
    <2>2. /\ Put(b, 0, v) \in Blocks(c)
          /\ \A j \in 0 .. c - 1 : Put(b, 0, v).slots[j] = IF j = 0 THEN v ELSE b.slots[j]
          /\ copied => Put(b, 0, v).initialized = b.initialized
          /\ ~copied => \A j \in 0 .. c - 1 :
                Put(b, 0, v).initialized[j] <=> j = 0 \/ b.initialized[j]
      <3>1. c \in Nat /\ b \in Blocks(c)
        BY <1>1, <1>4
      <3>2. ASSUME NEW i \in 0 .. c - 1, NEW x \in Values
            PROVE  /\ Put(b, i, x) \in Blocks(c)
                   /\ \A j \in 0 .. c - 1 : Put(b, i, x).slots[j] = IF j = i THEN x ELSE b.slots[j]
                   /\ copied => Put(b, i, x).initialized = b.initialized
                   /\ ~copied => \A j \in 0 .. c - 1 :
                         Put(b, i, x).initialized[j] <=> j = i \/ b.initialized[j]
        BY <3>1, PutIs
      <3> QED
        BY <1>2, <3>2
    <2> QED
      BY <2>1, <2>2
  <1>6. m.slots[0] = v
    BY <1>2, <1>5
  <1>7. \A k \in 1 .. n - 1 : m.slots[k] = memory.slots[k]
    <2> SUFFICES ASSUME NEW k \in 1 .. n - 1 PROVE m.slots[k] = memory.slots[k]
      OBVIOUS
    <2>1. k \in 0 .. c - 1 /\ k # 0 /\ k # n
      BY <1>1
    <2> QED
      BY <1>3, <1>4, <1>5, <2>1
  <1>8. \A j \in 0 .. c - 1 : m.initialized[j] <=> ~copied /\ j < n
    <2> SUFFICES ASSUME NEW j \in 0 .. c - 1 PROVE m.initialized[j] <=> ~copied /\ j < n
      OBVIOUS
    <2>1. CASE copied
      BY <1>1, <1>3, <1>4, <1>5, <2>1
    <2>2. CASE ~copied
      <3>1. m.initialized[j] <=> j = 0 \/ (j # n /\ j # 0 /\ memory.initialized[j])
        BY <1>3, <1>4, <1>5, <2>2
      <3>2. memory.initialized[j] <=> j < n + 1
        BY <1>1, <2>2
      <3>3. j < n + 1 /\ j # n <=> j < n
        BY <1>1
      <3>4. j = 0 => j < n
        OBVIOUS
      <3> QED
        BY <2>2, <3>1, <3>2, <3>3, <3>4
    <2> QED
      BY <2>1, <2>2
  <1>9. \A k \in 0 .. n - 1 : m.slots[k] \in Values
    <2> SUFFICES ASSUME NEW k \in 0 .. n - 1 PROVE m.slots[k] \in Values
      OBVIOUS
    <2>1. CASE k = 0
      BY <1>2, <1>6, <2>1
    <2>2. CASE k # 0
      <3>1. k \in 1 .. n - 1 /\ k \in 0 .. n
        BY <2>2
      <3> QED
        BY <1>1, <1>7, <3>1
    <2> QED
      BY <2>1, <2>2
  <1>10. Holds(m, c, 0, n)
    <2>1. n \in 0 .. c
      BY <1>1
    <2> QED
      BY <1>1, <1>5, <1>8, <1>9, <2>1, InFront
  <1> DEFINE s == RowOf(memory, c, 0, n + 1)
             u == RowOf(m, c, 0, n)
             w == Promised!Without(s, 1)
  <1>11. s \in Seq(Values) /\ Len(s) = n + 1 /\ \A j \in 1 .. n + 1 : s[j] = memory.slots[j - 1]
    BY InFront
  <1>12. u \in Seq(Values) /\ Len(u) = n /\ \A j \in 1 .. n : u[j] = m.slots[j - 1]
    BY <1>10, InFront, SMTT(30)
  <1> HIDE DEF s, u
  <1>13. w \in Seq(Values) /\ Len(w) = n /\ \A j \in 1 .. n : w[j] = s[j + 1]
    <2>1. 1 \in 1 .. Len(s) /\ Len(s) - 1 = n
      BY <1>11
    <2>0. s \in Seq(Values)
      BY <1>11
    <2>2. ASSUME NEW t, t = Promised!Without(s, 1)
          PROVE  /\ t \in Seq(Values) /\ Len(t) = Len(s) - 1
                 /\ \A j \in 1 .. Len(s) - 1 : t[j] = IF j < 1 THEN s[j] ELSE s[j + 1]
      BY <2>0, <2>1, <2>2, WithoutIs, SMTT(30)
    <2>3. /\ w \in Seq(Values) /\ Len(w) = n
          /\ \A j \in 1 .. n : w[j] = IF j < 1 THEN s[j] ELSE s[j + 1]
      BY <2>1, <2>2
    <2>4. \A j \in 1 .. n : ~(j < 1)
      OBVIOUS
    <2> QED
      BY <2>3, <2>4
  <1> HIDE DEF w
  <1> DEFINE f == [j \in 1 .. n |-> IF j = 1 THEN n ELSE j - 1]
  <1>14. f \in Injection(1 .. n, 1 .. n)
    <2>1. f \in [1 .. n -> 1 .. n]
      OBVIOUS
    <2>2. \A i, j \in 1 .. n : f[i] = f[j] => i = j
      OBVIOUS
    <2> HIDE DEF f
    <2> QED
      BY <2>1, <2>2 DEF Injection, IsInjective
  <1>15. ASSUME NEW j \in 1 .. n PROVE u[j] = w[f[j]]
    <2>1. CASE j = 1
      <3>1. u[j] = v /\ f[j] = n /\ n \in 1 .. n /\ n + 1 \in 1 .. n + 1 /\ (n + 1) - 1 = n
        BY <1>6, <1>12, <2>1
      <3>2. w[n] = s[n + 1] /\ s[n + 1] = memory.slots[n]
        BY <1>11, <1>13, <3>1
      <3> QED
        BY <3>1, <3>2
    <2>2. CASE j # 1
      <3>1. f[j] = j - 1 /\ j - 1 \in 1 .. n - 1 /\ j - 1 \in 1 .. n /\ (j - 1) + 1 = j /\ j \in 1 .. n + 1
        BY <2>2
      <3>2. u[j] = memory.slots[j - 1]
        BY <1>7, <1>12, <3>1
      <3>3. w[j - 1] = s[j] /\ s[j] = memory.slots[j - 1]
        BY <1>11, <1>13, <3>1
      <3> QED
        BY <3>1, <3>2, <3>3
    <2> QED
      BY <2>1, <2>2
  <1> HIDE DEF f
  <1>16. Permuted(u, w)
    BY <1>12, <1>13, <1>14, <1>15 DEF Permuted
  <1> QED
    BY <1>6, <1>7, <1>10, <1>16 DEF s, u, w, Rooted

\* pop of a heap, and its iterator.
LEMMA HeapTakeOp ==
    ASSUME IInv, Whole, UNCHANGED unshaped, kind = "Heap", HeapTakeLeast
    PROVE  IInv' /\ (Promised!RemoveNone \/ Promised!RemoveLeast)
  <1> DEFINE s == Contents
             n == length - 1
             w == Promised!Without(s, 1)
  <1>1. /\ s = RowOf(memory, capacity, 0, length) /\ Row = s /\ head = 0
        /\ Holds(memory, capacity, 0, length) /\ Ordered(memory.slots, length)
        /\ s \in Seq(Values) /\ Len(s) = length /\ length \in Nat
        /\ live = Owned(s) /\ Distinct(s)
    BY WholeIs
  <1>2. CASE length = 0
    BY <1>2, NoneOp DEF HeapTakeLeast
  <1>3. CASE length # 0
    <2>1. s # <<>> /\ 1 \in Promised!Least(s) /\ s[1] = memory.slots[0] /\ 1 \in 1 .. Len(s)
      BY <1>3, FirstIsLeast
    <2> DEFINE v == memory.slots[n]
               m == IF n = 0 THEN MovedOut(memory, 0) ELSE Put(MovedOut(MovedOut(memory, 0), n), 0, v)
    <2>2. /\ outcome' = <<"remove", 1, s[1]>> /\ live' = live \ {s[1]}
          /\ head' = 0 /\ length' = n /\ capacity' = capacity
          /\ memory' = [m EXCEPT !.slots = IF n = 0 THEN @ ELSE Sifted(@, Sinks(@, v, n))]
      BY <1>1, <1>3, <2>1 DEF HeapTakeLeast, TakeOut
    <2>3. w \in Seq(Values) /\ Owned(w) = live \ {s[1]} /\ Distinct(w)
      <3>1. w \in Seq(Values)
        BY <1>1, <2>1, WithoutIs
      <3>2. live \ {s[1]} = Owned(w) /\ Distinct(w)
        BY <1>1, <2>1, LeavesOnce
      <3> QED
        BY <3>1, <3>2
    <2> HIDE DEF s, w
    <2>4. \E t : /\ t = RowOf(memory', capacity', 0, n) /\ Holds(memory', capacity', 0, n)
                 /\ Permuted(t, w) /\ Ordered(memory'.slots, n)
      <3>1. CASE n = 0
        <4>1. memory' = MovedOut(memory, 0)
          <5>1. m = MovedOut(memory, 0) /\ memory' = [m EXCEPT !.slots = m.slots]
            BY <2>2, <3>1
          <5>2. m \in Blocks(capacity)
            <6>1. capacity \in Nat /\ memory \in Blocks(capacity) /\ 0 \in 0 .. capacity - 1
              BY <1>1, <1>3 DEF Holds
            <6> QED
              BY <5>1, <6>1, TakenIs
          <5> HIDE DEF m
          <5> QED
            BY <5>1, <5>2 DEF Blocks
        <4>2. 0 = Pos(capacity, 0, length - 1)
          <5>1. capacity \in Nat \ {0} /\ 0 \in 0 .. capacity - 1
            BY <1>1, <1>3 DEF Holds
          <5>2. Pos(capacity, 0, 0) = 0
            BY <5>1, PosFacts
          <5> QED
            BY <3>1, <5>2
        <4>3. ASSUME NEW i, i = Pos(capacity, 0, length - 1)
              PROVE  /\ Holds(MovedOut(memory, i), capacity, 0, length - 1)
                     /\ RowOf(MovedOut(memory, i), capacity, 0, length - 1)
                           = Promised!Without(RowOf(memory, capacity, 0, length), length)
          BY <1>1, <1>3, <4>3, TakeFromBack
        <4>4. length = 1
          BY <1>1, <3>1
        <4>5. /\ Holds(memory', capacity', 0, n)
              /\ RowOf(memory', capacity', 0, n) = w
          <5>1. /\ Holds(MovedOut(memory, 0), capacity, 0, n)
                /\ RowOf(MovedOut(memory, 0), capacity, 0, n) = Promised!Without(s, 1)
            BY <1>1, <4>2, <4>3, <4>4
          <5> QED
            BY <2>2, <4>1, <5>1 DEF w
        <4>6. Permuted(w, w)
          <5> DEFINE f == [j \in 1 .. Len(w) |-> j]
          <5>1. f \in Injection(1 .. Len(w), 1 .. Len(w)) /\ \A j \in 1 .. Len(w) : w[j] = w[f[j]]
            BY DEF Injection, IsInjective
          <5> QED
            BY <5>1 DEF Permuted
        <4>7. Ordered(memory'.slots, n)
          BY <3>1 DEF Ordered
        <4> QED
          BY <4>5, <4>6, <4>7
      <3>2. CASE n # 0
        <4> DEFINE c == capacity
        <4>1. n \in Nat \ {0} /\ n + 1 = length
          BY <1>1, <1>3, <3>2
        <4> HIDE DEF n
        <4>2. m = Put(MovedOut(MovedOut(memory, 0), n), 0, v)
          BY <3>2
        <4>3. Holds(memory, c, 0, n + 1) /\ s = RowOf(memory, c, 0, n + 1)
          BY <1>1, <4>1
        <4>4. /\ Holds(m, c, 0, n) /\ m.slots[0] = v
              /\ \A k \in 1 .. n - 1 : m.slots[k] = memory.slots[k]
              /\ Permuted(RowOf(m, c, 0, n), w)
          <5>0. Holds(memory, c, 0, n + 1)
            BY <4>3
          <5>1. ASSUME NEW b, NEW x, x = memory.slots[n], b = Put(MovedOut(MovedOut(memory, 0), n), 0, x)
                PROVE  /\ Holds(b, c, 0, n) /\ Rooted(memory.slots, b.slots, n)
                       /\ Permuted(RowOf(b, c, 0, n), Promised!Without(RowOf(memory, c, 0, n + 1), 1))
            BY <4>1, <5>0, <5>1, RootReplaced
          <5> HIDE DEF m
          <5>2. /\ Holds(m, c, 0, n) /\ Rooted(memory.slots, m.slots, n)
                /\ Permuted(RowOf(m, c, 0, n), Promised!Without(RowOf(memory, c, 0, n + 1), 1))
            BY <4>2, <5>1
          <5>3. Permuted(RowOf(m, c, 0, n), w)
            BY <4>3, <5>2 DEF w
          <5> QED
            BY <5>2, <5>3 DEF Rooted
        <4> DEFINE p == Sinks(m.slots, v, n)
                   q == [m EXCEPT !.slots = Sifted(m.slots, p)]
        <4>5. memory' = q
          BY <2>2, <3>2
        <4> HIDE DEF m, p, q
        <4>6. Passes(p, n)
          <5>1. /\ p \in Seq(0 .. n - 1) /\ Len(p) >= 1
                /\ \A a, b \in 1 .. Len(p) : a < b => p[a] < p[b]
            BY <4>1, SinksIs DEF p
          <5>2. \A a \in 1 .. Len(p) : p[a] \in 0 .. n - 1
            BY <5>1, ElementOfSeq
          <5>3. \A i, j \in 1 .. Len(p) : p[i] = p[j] => i = j
            BY <4>1, <5>1, <5>2
          <5> QED
            BY <5>1, <5>3 DEF Passes
        <4>7. /\ Holds(q, c, 0, n) /\ Moved(q.slots, m.slots, p, n)
              /\ Permuted(RowOf(q, c, 0, n), RowOf(m, c, 0, n))
          <5>1. ASSUME NEW b, b = [m EXCEPT !.slots = Sifted(m.slots, p)]
                PROVE  /\ Holds(b, c, 0, n)
                       /\ Permuted(RowOf(b, c, 0, n), RowOf(m, c, 0, n))
                       /\ Moved(b.slots, m.slots, p, n)
            BY <4>4, <4>6, <5>1, SiftKeeps
          <5> QED
            BY <5>1 DEF q
        <4>8. Ordered(q.slots, n)
          <5>1. \A k \in 0 .. n - 1 : m.slots[k] \in Values
            BY <4>4, InFront
          <5>2. \A k \in 1 .. n - 1 : Parent(k) # 0 => Rank[m.slots[Parent(k)]] <= Rank[m.slots[k]]
            <6> SUFFICES ASSUME NEW k \in 1 .. n - 1, Parent(k) # 0
                         PROVE  Rank[m.slots[Parent(k)]] <= Rank[m.slots[k]]
              OBVIOUS
            <6>1. k \in Nat \ {0} /\ k < n /\ k \in 1 .. length - 1
              BY <4>1
            <6>2. Parent(k) \in Nat /\ Parent(k) < k
              BY <6>1, AroundIs
            <6>3. Parent(k) \in 1 .. n - 1
              BY <4>1, <6>1, <6>2
            <6>4. Rank[memory.slots[Parent(k)]] <= Rank[memory.slots[k]]
              BY <1>1, <6>1 DEF Ordered
            <6> QED
              BY <4>4, <6>3, <6>4
          <5>3. p = Sinks(m.slots, m.slots[0], n)
            BY <4>4 DEF p
          <5>4. ASSUME NEW a, NEW b, a = m.slots, Moved(b, a, p, n) PROVE Ordered(b, n)
            BY <4>1, <5>1, <5>2, <5>3, <5>4, SinkOrders
          <5> QED
            BY <4>7, <5>4
        <4>9. Permuted(RowOf(q, c, 0, n), w)
          <5>1. RowOf(q, c, 0, n) \in Seq(Values) /\ RowOf(m, c, 0, n) \in Seq(Values)
            BY <4>4, <4>7, RowIs
          <5> QED
            BY <2>3, <4>4, <4>7, <5>1, PermutedAgain
        <4> QED
          BY <2>2, <4>5, <4>7, <4>8, <4>9
      <3> QED
        BY <3>1, <3>2
    <2>5. PICK t : /\ t = RowOf(memory', capacity', 0, n) /\ Holds(memory', capacity', 0, n)
                   /\ Permuted(t, w) /\ Ordered(memory'.slots, n)
      BY <2>4
    <2>6. t = RowOf(memory', capacity', head', length') /\ Holds(memory', capacity', head', length')
          /\ Ordered(memory'.slots, length')
      BY <2>2, <2>5
    <2>7. t \in Seq(Values)
      BY <2>5, RowIs
    <2>8. Range(t) = Range(w) /\ (IsInjective(w) => IsInjective(t))
      BY <2>3, <2>5, <2>7, PermutedSame
    <2>9. live' = Owned(t) /\ Distinct(t)
      BY <2>2, <2>3, <2>8 DEF Owned, Distinct
    <2> HIDE DEF n, v, m
    <2>10. IInv' /\ Row' = t
      BY <2>2, <2>6, <2>9, WholeStep
    <2>11. Promised!Becomes(w)
      BY <2>3, <2>5, <2>7, <2>10, BecomesSo
    <2>12. Promised!RemoveLeast
      BY <1>1, <2>1, <2>2, <2>11 DEF Promised!RemoveLeast, w
    <2> QED
      BY <2>10, <2>12
  <1> QED
    BY <1>2, <1>3

-----------------------------------------------------------------------------
(* The invariant is inductive, and every step is one of Container's.         *)

\* What a step of the collection shows: one of Container, or none.
Kept == IInv' /\ kind' = kind /\ (Promised!Next \/ (Row' = Row /\ outcome' = outcome))

\* A new collection.
LEMMA InitIs == RowInit => IInv /\ Promised!Init
  <1> SUFFICES ASSUME RowInit PROVE IInv /\ Promised!Init
    OBVIOUS
  <1>1. /\ kind \in Kinds /\ copied \in BOOLEAN /\ capacity \in Nat
        /\ memory = Blank(capacity) /\ length = 0 /\ head = 0 /\ cursor = 0
        /\ phase = "open" /\ live = {} /\ outcome = <<"new">>
    BY CollectionsConstants DEF RowInit
  <1>2. Size = 0 /\ First = 0 /\ Shape
    BY <1>1 DEF Size, First, Shape
  <1>3. Holds(memory, capacity, 0, 0)
    <2>1. memory \in Blocks(capacity) /\ \A i \in 0 .. capacity - 1 : ~memory.initialized[i]
      BY <1>1 DEF Blank, Blocks
    <2>2. Window(capacity, 0, 0) = {}
      BY DEF Window
    <2>3. 0 \in 0 .. capacity /\ 0 - 1 = -1 /\ (capacity # 0 => 0 < capacity)
      BY <1>1
    <2>4. \A k \in 0 .. 0 - 1 : FALSE
      OBVIOUS
    <2> QED
      BY <1>1, <2>1, <2>2, <2>3, <2>4 DEF Holds
  <1>4. Contents = <<>>
    BY <1>2, <1>3, NothingHeld DEF Contents
  <1>5. live = Owned(Contents) /\ Distinct(Contents)
    <2>1. Range(<<>>) = {} /\ IsInjective(<<>>)
      BY DEF Range, IsInjective
    <2> QED
      BY <1>1, <1>4, <2>1 DEF Owned, Distinct
  <1>6. Ordered(memory.slots, 0)
    BY DEF Ordered
  <1>7. IInv
    BY <1>2, <1>3, <1>5, <1>6 DEF IInv
  <1>8. Row = <<>>
    BY <1>4, <1>7, RowIsContents
  <1> QED
    BY <1>1, <1>7, <1>8 DEF Promised!Init

\* A call, and a step of an iterator that is not an array's, finds all values held.
LEMMA OpenIsWhole ==
    ASSUME IInv, NEW k
    PROVE  /\ Call(k) => Whole /\ UNCHANGED unshaped /\ kind = k /\ kind' = kind
           /\ Step(k) /\ UNCHANGED cursor /\ k # "Array"
                 => Whole /\ UNCHANGED unshaped /\ kind = k /\ kind' = kind
  BY DEF Call, Step, Whole, IInv, Shape, unshaped

\* One lemma for each group of calls: those that change the block,
LEMMA ResizeStep ==
    ASSUME IInv, \/ ArrayReserve \/ QueueReserve \/ DequeReserve \/ HeapReserve
                 \/ ArrayShrink \/ QueueShrink \/ DequeShrink \/ HeapShrink
    PROVE  Kept
  <1>1. PICK k : Call(k) /\ (ShrinkToFit \/ \E n \in Capacities : Reserve(n))
    BY DEF ArrayReserve, QueueReserve, DequeReserve, HeapReserve,
           ArrayShrink, QueueShrink, DequeShrink, HeapShrink
  <1>2. Whole /\ UNCHANGED unshaped /\ kind' = kind
    BY <1>1, OpenIsWhole
  <1>3. IInv' /\ Promised!Resize
    BY <1>1, <1>2, ResizeOp
  <1> QED
    BY <1>2, <1>3, NextByRow DEF Kept

\* those that put a value in,
LEMMA AddStep ==
    ASSUME IInv, ArrayPush \/ Enqueue \/ PushBack \/ PushFront \/ HeapPush
    PROVE  Kept
  <1>1. CASE ArrayPush \/ Enqueue \/ PushBack
    <2>1. PICK k \in {"Array", "Queue", "Deque"} : Call(k) /\ \E v \in Offered : AddLast(v)
      BY <1>1 DEF ArrayPush, Enqueue, PushBack
    <2>2. Whole /\ UNCHANGED unshaped /\ kind # "Heap" /\ kind' = kind
      BY <2>1, OpenIsWhole
    <2>3. PICK v \in Offered : AddLast(v)
      BY <2>1
    <2>4. IInv' /\ v \in Values /\ Promised!AddLast(v)
      BY <2>2, <2>3, AddLastOp
    <2> QED
      BY <2>2, <2>4, NextByRow DEF Kept
  <1>2. CASE PushFront
    <2>1. Whole /\ kind' = kind
      BY <1>2, OpenIsWhole DEF PushFront
    <2>2. IInv' /\ \E v \in Values : Promised!AddFirst(v)
      BY <1>2, <2>1, PushFrontOp
    <2> QED
      BY <2>1, <2>2, NextByRow DEF Kept
  <1>3. CASE HeapPush
    <2>1. Whole /\ kind' = kind
      BY <1>3, OpenIsWhole DEF HeapPush
    <2>2. IInv' /\ \E v \in Values : Promised!AddLast(v)
      BY <1>3, <2>1, HeapPushOp
    <2> QED
      BY <2>1, <2>2, NextByRow DEF Kept
  <1> QED
    BY <1>1, <1>2, <1>3

\* those that take one out,
LEMMA TakeStep ==
    ASSUME IInv, \/ Dequeue \/ PopFront \/ PopBack \/ ArrayRemoveAt \/ ArrayPop \/ HeapPop
                 \/ QueueIteratorNext \/ DequeIteratorNext \/ HeapIteratorNext
    PROVE  Kept
  <1>1. CASE Dequeue \/ PopFront \/ QueueIteratorNext \/ DequeIteratorNext
    <2>1. PICK k \in {"Queue", "Deque"} : (Call(k) \/ (Step(k) /\ UNCHANGED cursor)) /\ TakeFirst
      BY <1>1 DEF Dequeue, PopFront, QueueIteratorNext, DequeIteratorNext
    <2>2. Whole /\ UNCHANGED unshaped /\ kind \in {"Queue", "Deque"} /\ kind' = kind
      BY <2>1, OpenIsWhole
    <2>3. IInv' /\ (Promised!RemoveNone \/ \E n \in 1 .. Len(Row) + 1 : Promised!Remove(n))
      BY <2>1, <2>2, TakeFirstOp
    <2> QED
      BY <2>2, <2>3, NextByRow DEF Kept
  <1>2. CASE PopBack
    <2>1. Whole /\ UNCHANGED unshaped /\ kind = "Deque" /\ kind' = kind /\ TakeLast
      BY <1>2, OpenIsWhole DEF PopBack
    <2>2. IInv' /\ (Promised!RemoveNone \/ \E n \in 1 .. Len(Row) + 1 : Promised!Remove(n))
      BY <2>1, TakeLastOp
    <2> QED
      BY <2>1, <2>2, NextByRow DEF Kept
  <1>3. CASE ArrayRemoveAt \/ ArrayPop
    <2>1. Whole /\ UNCHANGED unshaped /\ kind = "Array" /\ kind' = kind
      BY <1>3, OpenIsWhole DEF ArrayRemoveAt, ArrayPop
    <2>2. length \in Nat
      BY <2>1, WholeIs
    <2>3. CASE ArrayPop /\ length = 0
      <3>1. None(1)
        BY <2>3 DEF ArrayPop
      <3>2. IInv' /\ Promised!RemoveNone
        BY <2>1, <2>3, <3>1, NoneOp
      <3> QED
        BY <2>1, <3>2, NextByRow DEF Kept
    <2>4. CASE ~(ArrayPop /\ length = 0)
      <3>1. PICK i \in 0 .. length : RemoveAt(i)
        <4>1. CASE ArrayRemoveAt
          BY <4>1 DEF ArrayRemoveAt
        <4>2. CASE ArrayPop /\ length # 0
          <5>1. RemoveAt(length - 1)
            BY <4>2 DEF ArrayPop
          <5>2. length - 1 \in 0 .. length
            BY <2>2, <4>2
          <5> QED
            BY <5>1, <5>2
        <4> QED
          BY <1>3, <2>4, <4>1, <4>2
      <3>2. IInv' /\ \E n \in 1 .. Len(Row) + 1 : Promised!Remove(n)
        BY <2>1, <3>1, RemoveAtOp
      <3> QED
        BY <2>1, <3>2, NextByRow DEF Kept
    <2> QED
      BY <2>3, <2>4
  <1>4. CASE HeapPop \/ HeapIteratorNext
    <2>1. Whole /\ UNCHANGED unshaped /\ kind = "Heap" /\ kind' = kind /\ HeapTakeLeast
      BY <1>4, OpenIsWhole DEF HeapPop, HeapIteratorNext
    <2>2. IInv' /\ (Promised!RemoveNone \/ Promised!RemoveLeast)
      BY <2>1, HeapTakeOp
    <2> QED
      BY <2>1, <2>2, NextByRow DEF Kept
  <1> QED
    BY <1>1, <1>2, <1>3, <1>4

\* those that only look,
LEMMA LookStep ==
    ASSUME IInv, \/ ArrayAt \/ ArraySlice \/ QueuePeek \/ DequePeek \/ DequePeekBack \/ HeapPeek
    PROVE  Kept
  <1>1. CASE ArrayAt
    <2>1. Whole /\ UNCHANGED unshaped /\ kind = "Array" /\ kind' = kind
      BY <1>1, OpenIsWhole DEF ArrayAt
    <2>2. length \in Nat /\ head = 0
      BY <2>1, WholeIs
    <2>3. PICK i \in 0 .. length : Look(i + 1, i < length, i)
      BY <1>1 DEF ArrayAt
    <2>4. i + 1 \in 1 .. length + 1 /\ (i < length <=> i + 1 <= length)
          /\ (i < length => i + 1 \in 1 .. length) /\ (i + 1) - 1 = i /\ (i < length) \in BOOLEAN
      BY <2>2
    <2>5. i < length => memory.slots[i] = Contents[i + 1]
      BY <2>1, <2>2, <2>4, AtFront
    <2>6. ASSUME NEW n \in 1 .. length + 1, NEW there \in BOOLEAN, there <=> n <= length,
                 there => memory.slots[i] = Contents[n], Look(n, there, i)
          PROVE  IInv' /\ Promised!Look(n) /\ n \in 1 .. Len(Row) + 1
      BY <2>1, <2>6, LookOp
    <2>7. IInv' /\ Promised!Look(i + 1) /\ i + 1 \in 1 .. Len(Row) + 1
      BY <2>3, <2>4, <2>5, <2>6
    <2> QED
      BY <2>1, <2>7, NextByRow DEF Kept
  <1>2. CASE ArraySlice
    <2>1. Whole /\ UNCHANGED unshaped /\ kind = "Array" /\ kind' = kind
      BY <1>2, OpenIsWhole DEF ArraySlice
    <2>2. /\ outcome' = <<"slice", [i \in 1 .. length |-> memory.slots[i - 1]]>>
          /\ UNCHANGED <<memory, capacity, length, head, live>>
      BY <1>2 DEF ArraySlice
    <2>3. length \in Nat /\ head = 0 /\ Row = Contents /\ Contents \in Seq(Values)
          /\ Len(Contents) = length
      BY <2>1, WholeIs
    <2>4. [i \in 1 .. length |-> memory.slots[i - 1]] = Contents
      <3>1. \A n \in 1 .. length : memory.slots[n - 1] = Contents[n]
        BY <2>1, <2>3, AtFront
      <3>2. Contents = [n \in 1 .. length |-> Contents[n]]
        BY <2>3, LenProperties
      <3> QED
        BY <3>1, <3>2, Zenon
    <2>5. IInv' /\ Promised!Becomes(Row)
      BY <2>1, <2>2, StaysSo
    <2>6. Promised!LookAll
      BY <2>1, <2>2, <2>3, <2>4, <2>5 DEF Promised!LookAll
    <2> QED
      BY <2>1, <2>5, <2>6, NextByRow DEF Kept
  <1>3. CASE QueuePeek \/ DequePeek \/ DequePeekBack
    <2>1. Whole /\ UNCHANGED unshaped /\ kind # "Heap" /\ kind' = kind
      <3>1. PICK k \in {"Queue", "Deque"} : Call(k)
        BY <1>3 DEF QueuePeek, DequePeek, DequePeekBack
      <3> QED
        BY <3>1, OpenIsWhole
    <2>2. length \in Nat
      BY <2>1, WholeIs
    <2>3. ASSUME NEW n \in 1 .. length + 1, NEW there \in BOOLEAN, NEW i, there <=> n <= length,
                 there => memory.slots[i] = Contents[n], Look(n, there, i)
          PROVE  Kept
      <3>1. IInv' /\ Promised!Look(n) /\ n \in 1 .. Len(Row) + 1
        BY <2>1, <2>3, LookOp
      <3> QED
        BY <2>1, <3>1, NextByRow DEF Kept
    <2>4. CASE QueuePeek \/ DequePeek
      <3>1. Look(1, length # 0, head)
        BY <2>4 DEF QueuePeek, DequePeek
      <3>2. 1 \in 1 .. length + 1 /\ (length # 0 <=> 1 <= length) /\ (length # 0) \in BOOLEAN
        BY <2>2
      <3>3. length # 0 => memory.slots[head] = Contents[1]
        BY <2>1, AtFront
      <3> QED
        BY <2>3, <3>1, <3>2, <3>3
    <2>5. CASE DequePeekBack /\ length = 0
      <3>1. Look(1, FALSE, 0)
        BY <2>5 DEF DequePeekBack
      <3>2. 1 \in 1 .. length + 1 /\ ~(1 <= length)
        BY <2>5
      <3> QED
        BY <2>3, <3>1, <3>2
    <2>6. CASE DequePeekBack /\ length # 0
      <3>1. Look(length, TRUE, Slot(length - 1))
        BY <2>6 DEF DequePeekBack
      <3>2. length \in 1 .. length + 1 /\ length \in 1 .. length /\ length <= length
        BY <2>2, <2>6
      <3>3. memory.slots[Slot(length - 1)] = Contents[length]
        BY <2>1, <3>2, InItsSlot
      <3> QED
        BY <2>3, <3>1, <3>2, <3>3
    <2> QED
      BY <1>3, <2>4, <2>5, <2>6
  <1>4. CASE HeapPeek
    <2>1. Whole /\ UNCHANGED unshaped /\ kind = "Heap" /\ kind' = kind
      BY <1>4, OpenIsWhole DEF HeapPeek
    <2>2. IInv' /\ Promised!LookLeast
      BY <1>4, <2>1, HeapPeekOp
    <2> QED
      BY <2>1, <2>2, NextByRow DEF Kept
  <1> QED
    BY <1>1, <1>2, <1>3, <1>4

\* and those that destroy what is left.
LEMMA EmptyStep ==
    ASSUME IInv, \/ ArrayClear \/ QueueClear \/ DequeClear \/ HeapClear
                 \/ ArrayDispose \/ QueueDispose \/ DequeDispose \/ HeapDispose
    PROVE  Kept
  <1>1. ASSUME NEW k, k = capacity \/ (kind = "Array" /\ k = length), Disposed(k)
        PROVE  Kept
    <2>1. IInv' /\ kind' = kind /\ Promised!Clear
      BY <1>1, DisposedOp
    <2> QED
      BY <2>1, NextByRow DEF Kept
  <1>2. ASSUME NEW c, Call(c), NEW k, k = capacity \/ (kind = "Array" /\ k = length), Cleared(k)
        PROVE  Kept
    <2>1. Whole /\ UNCHANGED unshaped /\ kind' = kind
      BY <1>2, OpenIsWhole
    <2>2. IInv' /\ Promised!Clear
      BY <1>2, <2>1, ClearedOp
    <2> QED
      BY <2>1, <2>2, NextByRow DEF Kept
  <1>3. CASE ArrayDispose \/ QueueDispose \/ DequeDispose \/ HeapDispose
    BY <1>1, <1>3 DEF ArrayDispose, QueueDispose, DequeDispose, HeapDispose
  <1>4. CASE ArrayClear
    <2>1. Call("Array") /\ Cleared(length) /\ kind = "Array"
      BY <1>4 DEF ArrayClear, Call
    <2> QED
      BY <1>2, <2>1
  <1>5. CASE QueueClear \/ DequeClear \/ HeapClear
    BY <1>2, <1>5 DEF QueueClear, DequeClear, HeapClear
  <1> QED
    BY <1>3, <1>4, <1>5

\* Every step keeps the invariant, and is one of Container's or shows nothing.
LEMMA NextKeeps == IInv /\ [RowNext]_rvars => Kept
  <1> SUFFICES ASSUME IInv, [RowNext]_rvars PROVE Kept
    OBVIOUS
  <1>1. CASE UNCHANGED rvars
    <2>1. /\ kind' = kind /\ copied' = copied /\ memory' = memory /\ capacity' = capacity
          /\ length' = length /\ head' = head /\ cursor' = cursor /\ phase' = phase
          /\ live' = live /\ outcome' = outcome
      BY <1>1 DEF rvars
    <2>2. Size' = Size /\ First' = First
      BY <2>1 DEF Size, First
    <2>3. Shape'
      BY <2>1 DEF IInv, Shape
    <2>4. ASSUME NEW g, NEW n, g = First, n = Size, NEW t, t = Contents
          PROVE  IInv' /\ Row' = t
      <3>1. t = RowOf(memory', capacity', g, n) /\ Holds(memory', capacity', g, n)
            /\ live' = Owned(t) /\ Distinct(t) /\ (kind = "Heap" => Ordered(memory'.slots, n))
        BY <2>1, <2>4 DEF IInv, Contents
      <3>2. g = First' /\ n = Size'
        BY <2>2, <2>4
      <3> QED
        BY <2>1, <2>3, <3>1, <3>2, Follows
    <2> QED
      BY <2>1, <2>4, RowIsContents DEF Kept
  <1>2. CASE ArraySet
    <2>1. Whole /\ kind' = kind
      BY <1>2, OpenIsWhole DEF ArraySet
    <2>2. IInv' /\ \E n \in 1 .. Len(Row) + 1, v \in Values : Promised!Replace(n, v)
      BY <1>2, <2>1, ArraySetOp
    <2> QED
      BY <2>1, <2>2, NextByRow DEF Kept
  <1>3. CASE IntoIterator
    BY <1>3, IntoIteratorOp DEF Kept
  <1>4. CASE ArrayIteratorNext
    BY <1>4, ArrayIteratorOp, NextByRow DEF Kept
  <1> QED
    BY <1>1, <1>2, <1>3, <1>4, ResizeStep, AddStep, TakeStep, LookStep, EmptyStep DEF RowNext

\* The invariant is inductive.
LEMMA NextInv == IInv /\ [RowNext]_rvars => IInv'
  BY NextKeeps DEF Kept

\* Every step of a collection is a step of Container, or none.
LEMMA PromisedStep == IInv /\ [RowNext]_rvars => [Promised!Next]_(Promised!cvars)
  BY NextKeeps DEF Kept, Promised!cvars

-----------------------------------------------------------------------------

\* Type correctness, and what the answers rest on: the values of a collection are in
\* the window of `length` slots from `head`, no other slot's byte is set, a heap is in
\* order, and only an array's iterator has a cursor.
THEOREM Invariant == RowSpec => []IInv
  BY InitIs, NextInv, PTL DEF RowSpec

\* Whatever was removed, overwritten, grown, shrunk, wrapped or cleared before, a value
\* that is not copied is in exactly one slot whose byte is set, and every value that
\* was moved in and not given back is in one; a collection that is gone has destroyed
\* all it held.  For every capacity, and every number of values.
THEOREM ValuesOwnedOnce == RowSpec => []OwnedOnce
  BY Invariant, InvOwnedOnce, PTL

\* Array, Queue and Deque answer as a row of values does, and Heap as one that gives
\* back a least value: growing, shrinking, wrapping around, closing gaps and sifting
\* show in no answer, and a heap's iterator takes its values in their order.
THEOREM CollectionIsContainer == RowSpec => IsContainer
  <1>1. RowInit => IInv /\ Promised!Init
    BY InitIs
  <1>2. IInv /\ [RowNext]_rvars => IInv'
    BY NextInv
  <1>3. IInv /\ [RowNext]_rvars => [Promised!Next]_(Promised!cvars)
    BY PromisedStep
  <1> QED
    BY <1>1, <1>2, <1>3, PTL DEF RowSpec, IsContainer, Promised!Spec
=============================================================================
