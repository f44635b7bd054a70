---------------------------- MODULE MirValidation ----------------------------
(* The validator of MIR (crates/tn-mir/src/validate.rs), which the borrow    *)
(* checker runs first: the shape of the graph, the kinds of what is assigned,*)
(* switched on, returned and thrown, and a forward data-flow analysis of     *)
(* which locals are initialized.  Whether a call's arguments fit its         *)
(* signature is the type checker's question and is left to it.              *)
EXTENDS Mir

----------------------------------------------------------------------------
(* The graph (validate_targets).  A call's ways out are apart, and so are    *)
(* the three of a suspension.                                               *)

EdgesApart(t) == t.op \in {"call", "dispose", "suspend"} => Cardinality(Targets(t)) = Len(t.edges)

GraphValid(body) ==
    \A b \in DOMAIN body.blocks :
        LET t == body.blocks[b].terminator
        IN  Targets(t) \subseteq DOMAIN body.blocks /\ EdgesApart(t)

----------------------------------------------------------------------------
(* Kinds.                                                                   *)

\* place_type: each projection must be one that the kind of its local has
PlaceValid(body, place) ==
    /\ Local(place) \in Locals(body)
    /\ \/ Len(place) = 1
       \/ place \in Leaves(body.kinds[Local(place)], Local(place))
       \/ Local(place) \in References(body) /\ Within(Referent(Whole(Local(place))), place)

PlaceKind(body, place) == IF Len(place) = 1 THEN body.kinds[Local(place)] ELSE "value"

\* operand_type; the constants are plain data and the absent optional
OperandKinds(body, o) ==
    IF o.mode = "constant" THEN {"plain", "optional"} ELSE {PlaceKind(body, o.place)}

(* rvalue_type: what an assignment makes.  A comparison, a length and an     *)
(* element of a builtin collection are plain.                               *)
RvalueKinds(body, s) ==
    CASE s.how = "new" -> {"value"}
      [] s.how = "bind" -> {"method"}
      [] s.how = "some" -> {"optional", "plain"}
      [] s.how \in {"pair", "closure"} -> {s.how}
      [] s.how = "use" /\ Len(s.operands) = 1 /\ s.operands[1].mode # "shared" ->
            OperandKinds(body, s.operands[1])
      [] OTHER -> {"plain"}

StatementValid(body, s) ==
    CASE s.op = "assign" ->
            /\ \A place \in PlacesOf(s.operands) \cup {s.place} : PlaceValid(body, place)
            /\ PlaceKind(body, s.place) \in RvalueKinds(body, s)
      [] s.op = "borrow" ->
            /\ PlaceValid(body, s.operands[1].place)
            /\ PlaceKind(body, s.place) = s.how
      [] OTHER -> Local(s.place) \in Locals(body)

\* valid_switch_type, and what may be returned and thrown
TerminatorValid(body, t) ==
    /\ \A place \in PlacesOf(t.operands) : PlaceValid(body, place)
    /\ CASE t.op = "switch" ->
               OperandKinds(body, t.operands[1]) \cap {"plain", "optional", "value"} # {}
         [] t.op = "return" ->
               IF body.returns THEN "value" \in OperandKinds(body, t.operands[1])
               ELSE t.operands[1] = Constant
         [] t.op = "throw" -> "value" \in OperandKinds(body, t.operands[1])
         [] OTHER -> TRUE

----------------------------------------------------------------------------
(* Which locals are initialized.                                            *)

\* use_place: what operands read that is not there, each after those before it
Taken(operands) == {Local(place) : place \in {p \in Movings(operands) : Len(p) = 1}}
Missing(initialized, operands) ==
    {Local(operands[i].place) : i \in {j \in DOMAIN operands :
        /\ operands[j].mode # "constant"
        /\ Local(operands[j].place) \notin initialized \ Taken(SubSeq(operands, 1, j - 1))}}

(* validate_statement.  Binding a method to a value leaves the value there;   *)
(* its call takes it, if it takes its receiver.                             *)
InitializedBy(initialized, s) ==
    LET left == initialized \ (IF s.how = "bind" THEN {} ELSE Taken(s.operands))
    IN  CASE s.op = "dead" -> left \ {Local(s.place)}
          [] s.op \in {"assign", "borrow"} /\ Len(s.place) = 1 -> left \cup {Local(s.place)}
          [] OTHER -> left

\* What is initialized before the i-th statement of a block, or its terminator.
Before(block, entry, i) == FoldLeft(InitializedBy, entry, SubSeq(block.statements, 1, i - 1))

\* The edges of a terminator, each with what is initialized along it.
Along(t, left, e) == (left \ Taken(t.operands)) \cup ({t.edges[e].dest} \ {0})
Reaching(body, entries, c) ==
    UNION {LET block == body.blocks[b]
               t == block.terminator
           IN  {Along(t, Before(block, entry, Len(block.statements) + 1), e) :
                   entry \in entries[b], e \in {i \in DOMAIN t.edges : t.edges[i].block = c}} :
               b \in DOMAIN entries}

RECURSIVE Settled(_, _)

\* validate_dataflow: from `entries` on, until no entry changes
Settled(body, entries) ==
    LET next == [c \in DOMAIN entries |->
                    LET states == entries[c] \cup Reaching(body, entries, c)
                    IN  IF states = {} THEN Unreached
                        ELSE {{l \in UNION states : \A state \in states : l \in state}}]
    IN  IF next = entries THEN entries ELSE Settled(body, next)

InitializedAt(body) ==
    Settled(body, [b \in DOMAIN body.blocks |-> IF b = 1 THEN {Arguments(body)} ELSE Unreached])

(* UninitializedUse, in any block that can be reached.                      *)
UninitializedUses(body) ==
    LET entries == InitializedAt(body)
        uses(block, entry) ==
            UNION {Missing(Before(block, entry, i), block.statements[i].operands) :
                      i \in DOMAIN block.statements}
            \cup Missing(Before(block, entry, Len(block.statements) + 1), block.terminator.operands)
    IN  UNION {UNION {uses(body.blocks[b], entry) : entry \in entries[b]} : b \in DOMAIN entries}

(* Everything else that validate reports; the borrow checker goes on only if *)
(* there is none of it.                                                     *)
Valid(body) ==
    /\ GraphValid(body)
    /\ LET entries == InitializedAt(body)
       IN  \A b \in {c \in DOMAIN body.blocks : entries[c] # Unreached} :
               /\ \A i \in DOMAIN body.blocks[b].statements :
                      StatementValid(body, body.blocks[b].statements[i])
               /\ TerminatorValid(body, body.blocks[b].terminator)
=============================================================================
