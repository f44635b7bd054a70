-------------------------------- MODULE Mir --------------------------------
(* The middle representation of the compiler (crates/tn-mir/src/lib.rs), as  *)
(* far as ownership sees it.  A body is a sequence of basic blocks over      *)
(* numbered locals; block 1 is the entry, and the first `arguments` locals   *)
(* are the parameters.                                                       *)
EXTENDS Integers, Sequences, FiniteSets, SequencesExt

(* Places: a local, a field of it or the payload of an optional, or what a   *)
(* reference refers to (projections Field, Downcast and Dereference).        *)
Whole(l) == <<l>>
Payload(place) == Append(place, 1)
Referent(place) == Append(place, 0)

Local(place) == Head(place)
Within(place, part) == IsPrefix(place, part)
Overlap(p, q) == Within(p, q) \/ Within(q, p)

(* The type of a local, as far as ownership goes.  A value, a pair of        *)
(* values, an optional value and a closure are owned: moved, and dropped.  A *)
(* mutable reference is moved; a shared one and plain data are copied.  A    *)
(* method is a method bound to its receiver.                                 *)
OwnedKinds == {"value", "pair", "optional", "closure"}
CopyKinds == {"shared", "plain"}

(* The parts of a local that hold a value each.                             *)
Leaves(kind, l) ==
    CASE kind \in {"value", "closure"} -> {Whole(l)}
      [] kind = "pair" -> {<<l, 1>>, <<l, 2>>}
      [] kind = "optional" -> {Payload(Whole(l))}
      [] OTHER -> {}

(* Operands.  The receiver of a bound method is an operand of its own: the   *)
(* method was bound to it ("shared", "mutable" or "move"), and the call      *)
(* lends or consumes it.                                                     *)
Operand(place, mode) == [place |-> place, mode |-> mode]
Move(place) == Operand(place, "move")
Copy(place) == Operand(place, "copy")
Constant == Operand(<<>>, "constant")

Movings(operands) == {o.place : o \in {p \in Range(operands) : p.mode \in {"move", "consume"}}}
PlacesOf(operands) == {o.place : o \in {p \in Range(operands) : p.mode # "constant"}}

(* Statements.  Assign builds the value of `place` out of its operands.      *)
Statement(op, place, how, operands) ==
    [op |-> op, place |-> place, how |-> how, operands |-> operands]
StorageLive(l) == Statement("live", Whole(l), "", <<>>)
StorageDead(l) == Statement("dead", Whole(l), "", <<>>)
Assign(place, how, operands) == Statement("assign", place, how, operands)
Borrow(l, place, mutable) ==
    Statement("borrow", Whole(l), IF mutable THEN "mutable" ELSE "shared", <<Copy(place)>>)

(* Terminators: their operands, and where they go.  An edge of a call or a   *)
(* suspension may deliver a value to a local (0: none).                      *)
Edge(block, dest) == [block |-> block, dest |-> dest]
Terminator(op, operands, edges) == [op |-> op, operands |-> operands, edges |-> edges]

Goto(b) == Terminator("goto", <<>>, <<Edge(b, 0)>>)
Switch(operand, targets) ==
    Terminator("switch", <<operand>>, [i \in DOMAIN targets |-> Edge(targets[i], 0)])
Return(operand) == Terminator("return", <<operand>>, <<>>)
Throw(operand) == Terminator("throw", <<operand>>, <<>>)
Unreachable == Terminator("unreachable", <<>>, <<>>)

Exits(t) == t.op \in {"return", "throw"}

(* Suspend's last edge is the one taken when the task is cancelled.          *)
IsCancel(t, e) == t.op = "suspend" /\ e = Len(t.edges)

Delivered(t) == {t.edges[e].dest : e \in DOMAIN t.edges} \ {0}
Targets(t) == {t.edges[e].block : e \in DOMAIN t.edges}

Locals(body) == DOMAIN body.kinds
Arguments(body) == 1 .. body.arguments
Owned(body) == {l \in Locals(body) : body.kinds[l] \in OwnedKinds}
References(body) == {l \in Locals(body) : body.kinds[l] \in {"shared", "mutable"}}
Parts(body) == UNION {Leaves(body.kinds[l], l) : l \in Locals(body)}
PartsOf(body, place) == {part \in Parts(body) : Within(place, part)}

(* Every edge leads to a block with a higher number: no loops, and program   *)
(* points are numbered in an order of execution.                             *)
IsForward(body) ==
    \A b \in DOMAIN body.blocks : \A c \in Targets(body.blocks[b].terminator) : c > b

Sources(body, c) == {b \in DOMAIN body.blocks : c \in Targets(body.blocks[b].terminator)}

(* What a data-flow analysis knows at the entry of a block: {} while no path *)
(* has reached it, then {the state there}.                                   *)
Unreached == {}
=============================================================================
