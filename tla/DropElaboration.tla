--------------------------- MODULE DropElaboration ---------------------------
(* Drop elaboration (crates/tn-mir/src/drop_elaboration.rs).  Every owned    *)
(* local, and every part of one that can be moved alone, has a drop flag.    *)
(* The pass sets and clears the flags beside the statements that give a      *)
(* place a value and take it away, and inserts drops, each conditional on    *)
(* the flags of its local: before a StorageDead, on every edge that leaves   *)
(* the storage of a local behind, and before an exit.                        *)
(*                                                                           *)
(* The code threads these through new basic blocks.  Here they stay where    *)
(* they belong: a block of the elaborated body has its instructions, and an  *)
(* edge of its terminator the instructions on the way to its target.         *)
EXTENDS Mir

SetFlag(place, value) == [op |-> "flag", place |-> place, value |-> value]
Drop(l) == Statement("drop", Whole(l), "", <<>>)

Droppable(body) == Owned(body)     \* needs_drop

----------------------------------------------------------------------------
(* Which storage is live where (active_local_sets).                         *)

RECURSIVE AfterStorage(_, _), ActiveFrom(_, _)

\* apply_storage_lifetimes
AfterStorage(active, ss) ==
    IF ss = <<>> THEN active
    ELSE AfterStorage(CASE Head(ss).op = "live" -> active \cup {Local(Head(ss).place)}
                        [] Head(ss).op = "dead" -> active \ {Local(Head(ss).place)}
                        [] OTHER -> active, Tail(ss))

ActiveExit(block, active) == AfterStorage(active, block.statements)

\* Live at a block is what is live on every way to it that was found so far.
Common(sets) == IF sets = {} THEN Unreached ELSE {{l \in UNION sets : \A s \in sets : l \in s}}

ActiveFrom(body, entries) ==
    LET exits == [b \in DOMAIN entries |->
                     {ActiveExit(body.blocks[b], active) : active \in entries[b]}]
        next == [c \in DOMAIN entries |->
                    Common(entries[c] \cup UNION {exits[b] : b \in Sources(body, c)})]
    IN  IF next = entries THEN entries ELSE ActiveFrom(body, next)

\* A block no path reaches has no storage.
ActiveEntries(body) ==
    LET entries == ActiveFrom(body, [b \in DOMAIN body.blocks |->
                                        IF b = 1 THEN {Arguments(body)} ELSE Unreached])
    IN  [b \in DOMAIN body.blocks |-> UNION entries[b]]

----------------------------------------------------------------------------
(* Instructions.                                                            *)

\* The locals as a sequence, the youngest first.
YoungestFirst(locals) ==
    [i \in 1 .. Cardinality(locals) |->
        CHOOSE l \in locals : Cardinality({k \in locals : k > l}) = i - 1]

(* Mutant: cleanup in the order of declaration. *)
DropsOldestFirst(locals) ==
    [i \in 1 .. Cardinality(locals) |-> Drop(Reverse(YoungestFirst(locals))[i])]

\* cleanup_chain
Drops(locals) == [i \in 1 .. Cardinality(locals) |-> Drop(YoungestFirst(locals)[i])]

\* The flags of those places, if they have any; their order is of no account.
FlagsSet(body, places, value) ==
    LET flagged == {place \in places : Local(place) \in Droppable(body)}
    IN  [i \in 1 .. Cardinality(flagged) |-> SetFlag(SetToSeq(flagged)[i], value)]

(* Mutant: the flag of what was moved out stays set. *)
InstrumentedSourceKept(body, s) ==
    CASE s.op = "live" -> <<s>> \o FlagsSet(body, {s.place}, FALSE)
      [] s.op = "assign" -> <<s>> \o FlagsSet(body, {s.place}, TRUE)
      [] s.op = "dead" /\ Local(s.place) \in Droppable(body) -> <<Drop(Local(s.place)), s>>
      [] OTHER -> <<s>>

\* instrument_statements, and the drop that split_storage_deaths puts first.
\* A method bound to a moved receiver takes it only when it is called.
Instrumented(body, s) ==
    CASE s.op = "live" -> <<s>> \o FlagsSet(body, {s.place}, FALSE)
      [] s.op = "assign" ->
            <<s>> \o (IF s.how = "bind" THEN <<>> ELSE FlagsSet(body, Movings(s.operands), FALSE))
                 \o FlagsSet(body, {s.place}, TRUE)
      [] s.op = "dead" /\ Local(s.place) \in Droppable(body) -> <<Drop(Local(s.place)), s>>
      [] OTHER -> <<s>>

\* rewrite_scope_exit_edges: what an edge leaves behind, or all when cancelled
Leaving(body, entries, active, t, e) ==
    Droppable(body) \cap
        (IF IsCancel(t, e) THEN active ELSE active \ entries[t.edges[e].block])

\* initialize_edge_destination
Arrived(body, dest) == IF dest = 0 THEN <<>> ELSE FlagsSet(body, {Whole(dest)}, TRUE)

ElaboratedEdge(body, entries, active, t, e) ==
    [block |-> t.edges[e].block, dest |-> t.edges[e].dest,
     code |-> Arrived(body, t.edges[e].dest) \o Drops(Leaving(body, entries, active, t, e))]

ElaboratedBlock(body, entries, b) ==
    LET block == body.blocks[b]
        t == block.terminator
        active == ActiveExit(block, entries[b])
        atEntry == IF b = 1 THEN Arguments(body) \cap Droppable(body) ELSE {}
    IN  [code |-> FlagsSet(body, {Whole(l) : l \in atEntry}, TRUE)
                  \o FlattenSeq([i \in DOMAIN block.statements |->
                                    Instrumented(body, block.statements[i])])
                  \o FlagsSet(body, Movings(t.operands), FALSE)
                  \o (IF Exits(t) THEN Drops(active \cap Droppable(body)) ELSE <<>>),
         terminator |-> [t EXCEPT !.edges = [e \in DOMAIN t.edges |->
                            ElaboratedEdge(body, entries, active, t, e)]]]

(* elaborate_drops *)
Elaborated(body) ==
    LET entries == ActiveEntries(body)
    IN  [body EXCEPT !.blocks = [b \in DOMAIN @ |-> ElaboratedBlock(body, entries, b)]]
=============================================================================
