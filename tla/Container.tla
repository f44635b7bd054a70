------------------------------ MODULE Container ------------------------------
(* What the collections of std/collections that hold a row of values promise: *)
(* Array, Queue and Deque keep their values in the order they were put, and    *)
(* a Heap gives back a least one.  How storage grows, shrinks, wraps around or *)
(* is sifted shows in no answer.  Collections.tla implements this              *)
(* specification.                                                              *)
EXTENDS Naturals, Sequences, FiniteSets

CONSTANTS
    Values,     \* what may be put into the collection
    Rank,       \* the place of each value in the order of Ord<T>
    Absent      \* undefined

VARIABLES
    sorted,     \* the collection is a heap: it keeps no order but the values'
    contents,   \* the values, first one first
    outcome     \* the last call and what it answered

cvars == <<sorted, contents, outcome>>

Count(s, v) == Cardinality({i \in DOMAIN s : s[i] = v})
Becomes(s) == IF sorted
              THEN \A v \in Values : Count(contents', v) = Count(s, v)
              ELSE contents' = s

Least(s) == {i \in DOMAIN s : \A j \in DOMAIN s : Rank[s[i]] <= Rank[s[j]]}
Without(s, i) == SubSeq(s, 1, i - 1) \o SubSeq(s, i + 1, Len(s))
At(i) == IF i \in DOMAIN contents THEN contents[i] ELSE Absent

Init == /\ sorted \in BOOLEAN
        /\ contents = <<>>
        /\ outcome = <<"new">>

AddLast(v) == outcome' = <<"addLast", v>> /\ Becomes(Append(contents, v))
AddFirst(v) == outcome' = <<"addFirst", v>> /\ Becomes(<<v>> \o contents)

\* values come out of a row by position, and out of a heap by rank
Remove(i) == /\ ~sorted
             /\ outcome' = <<"remove", i, At(i)>>
             /\ Becomes(IF i \in DOMAIN contents THEN Without(contents, i) ELSE contents)
RemoveLeast == /\ sorted
               /\ contents # <<>>
               /\ \E i \in Least(contents) : /\ outcome' = <<"remove", 1, contents[i]>>
                                             /\ Becomes(Without(contents, i))
RemoveNone == /\ contents = <<>>
              /\ outcome' = <<"remove", 1, Absent>>
              /\ Becomes(contents)

Replace(i, v) ==
    /\ ~sorted
    /\ outcome' = <<"replace", i, IF i \in DOMAIN contents THEN v ELSE Absent>>
    /\ Becomes(IF i \in DOMAIN contents THEN [contents EXCEPT ![i] = v] ELSE contents)

Look(i) == /\ ~sorted
           /\ outcome' = <<"look", i, At(i)>>
           /\ Becomes(contents)
LookLeast == /\ sorted
             /\ IF contents = <<>>
                THEN outcome' = <<"look", 1, Absent>>
                ELSE \E i \in Least(contents) : outcome' = <<"look", 1, contents[i]>>
             /\ Becomes(contents)

\* the whole row, as slice() shows it
LookAll == ~sorted /\ outcome' = <<"slice", contents>> /\ Becomes(contents)

Resize == outcome' = <<"resize">> /\ Becomes(contents)
Clear == outcome' = <<"clear">> /\ Becomes(<<>>)

Next ==
    /\ sorted' = sorted
    /\ \/ \E v \in Values : AddLast(v) \/ AddFirst(v)
       \/ \E i \in 1 .. Len(contents) + 1 :
             Remove(i) \/ Look(i) \/ \E v \in Values : Replace(i, v)
       \/ RemoveLeast \/ RemoveNone \/ LookLeast \/ LookAll \/ Resize \/ Clear

Spec == Init /\ [][Next]_cvars
=============================================================================
