----------------------------- MODULE Dictionary ------------------------------
(* What Map, Set, OrderedMap and OrderedSet of std/collections promise: one    *)
(* value per key, found by its key whatever else was inserted, removed or       *)
(* rehashed, and given back once by an iteration, which follows the order of    *)
(* first insertion if the table is ordered.  TypedTable.tla implements this     *)
(* specification.                                                               *)
EXTENDS Integers

CONSTANTS Keys, Values, Absent

VARIABLES
    ordered,    \* iteration follows insertion
    value,      \* the value of each key present
    earlier,    \* the pairs of keys present whose first was inserted first; none
                \* are known of a table that is not ordered
    size,       \* what the length field of the collection says
    answer      \* the last call and what it answered

dvars == <<ordered, value, earlier, size, answer>>

Present == DOMAIN value
Nothing == [k \in {} |-> Absent]

Init == /\ ordered \in BOOLEAN
        /\ value = Nothing
        /\ earlier = {}
        /\ size = 0
        /\ answer = <<"new">>

\* a key that is present keeps its place
Insert(k, v) ==
    /\ answer' = <<"insert", k \notin Present>>
    /\ value' = [j \in Present \cup {k} |-> IF j = k THEN v ELSE value[j]]
    /\ earlier' = IF ordered /\ k \notin Present THEN earlier \cup (Present \X {k}) ELSE earlier
    /\ size' = IF k \in Present THEN size ELSE size + 1

Find ==
    /\ answer' = <<"find", [k \in Keys |-> IF k \in Present THEN value[k] ELSE Absent]>>
    /\ UNCHANGED <<value, earlier, size>>

Removed(k) == /\ value' = [j \in Present \ {k} |-> value[j]]
              /\ earlier' = {p \in earlier : p[1] # k /\ p[2] # k}

Remove(k) ==
    /\ answer' = <<"remove", k, IF k \in Present THEN value[k] ELSE Absent>>
    /\ Removed(k)
    /\ size' = IF k \in Present THEN size - 1 ELSE size

\* the length field does not follow a table that was moved into an iterator
Yield ==
    \/ /\ Present = {}
       /\ answer' = <<"entry", Absent>>
       /\ UNCHANGED <<value, earlier, size>>
    \/ \E k \in Present :
          /\ \A j \in Present : <<j, k>> \notin earlier
          /\ answer' = <<"entry", <<k, value[k]>> >>
          /\ Removed(k)
          /\ UNCHANGED size

Resize == answer' = <<"resize">> /\ UNCHANGED <<value, earlier, size>>

Clear == /\ answer' = <<"clear">>
         /\ value' = Nothing
         /\ earlier' = {}
         /\ size' \in {0, size}

Next ==
    /\ ordered' = ordered
    /\ \/ \E k \in Keys : Remove(k) \/ \E v \in Values : Insert(k, v)
       \/ Find \/ Yield \/ Resize \/ Clear

Spec == Init /\ [][Next]_dvars
=============================================================================
