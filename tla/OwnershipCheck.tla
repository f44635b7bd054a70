--------------------------- MODULE OwnershipCheck ---------------------------
(* The borrow checker (crates/tn-typecheck/src/ownership.rs): a forward      *)
(* data-flow analysis over the MIR of one body that tracks which places have *)
(* been moved out of and which loans are live, and rejects the accesses they *)
(* forbid.  A loan ends at the last program point, in block order, that      *)
(* mentions the reference holding it.                                        *)
EXTENDS MirValidation

(* Program points, numbered block by block; a block's terminator comes after *)
(* its statements.  Only their order matters, so blocks are 100 apart.       *)
Point(b, i) == 100 * b + i

LocalsOf(places) == {Local(place) : place \in places}

Mentions(s) == {Local(s.place)} \cup LocalsOf(PlacesOf(s.operands))
TerminatorMentions(t) == LocalsOf(PlacesOf(t.operands)) \cup Delivered(t)

UsesOf(body, l) ==
    UNION {LET ss == body.blocks[b].statements
               t == body.blocks[b].terminator
           IN  {Point(b, i) : i \in {j \in DOMAIN ss : l \in Mentions(ss[j])}}
               \cup {Point(b, Len(ss) + 1) : x \in {l} \cap TerminatorMentions(t)} :
               b \in DOMAIN body.blocks}

\* last_uses: the last point that mentions each local (0: none does)
LastUses(body) == [l \in Locals(body) |-> Max({0} \cup UsesOf(body, l))]

----------------------------------------------------------------------------
(* The analysis state: loans [holder, place, mutable] and moved places.     *)

Loan(holder, place, mutable) ==
    [holder |-> holder, place |-> place, mutable |-> mutable]

Clean == [loans |-> {}, moved |-> {}]

\* check_write, check_read and check_use: accesses that overlap are conflicts
CanWrite(state, place) == \A n \in state.loans : ~Overlap(n.place, place)
CanRead(state, place) == \A n \in state.loans : n.mutable => ~Overlap(n.place, place)
CanUse(state, place) == \A p \in state.moved : ~Overlap(p, place)

CanBorrow(state, place, mutable) ==
    /\ CanUse(state, place)
    /\ \A n \in state.loans : Overlap(n.place, place) => ~mutable /\ ~n.mutable

(* visit_operand, and the receiver of a method being bound.  The receiver of *)
(* a call is not visited again: it was when its method was bound.           *)
OperandAccepted(state, o) ==
    CASE o.mode \in {"move", "mutable"} -> CanUse(state, o.place) /\ CanWrite(state, o.place)
      [] o.mode \in {"copy", "shared"} -> CanUse(state, o.place) /\ CanRead(state, o.place)
      [] o.mode = "index" -> CanUse(state, o.place)
      [] OTHER -> TRUE

AfterOperand(body, state, o) ==
    IF o.mode = "move" /\ body.kinds[Local(o.place)] \notin CopyKinds
    THEN [state EXCEPT !.moved = @ \cup {o.place}] ELSE state

\* Operands are visited in order: a value cannot be moved twice in one call.
AfterOperands(body, state, operands) ==
    FoldLeft(LAMBDA before, o : AfterOperand(body, before, o), state, operands)
OperandsAccepted(body, state, operands) ==
    \A i \in DOMAIN operands :
        OperandAccepted(AfterOperands(body, state, SubSeq(operands, 1, i - 1)), operands[i])

Retained(state, last, point) ==
    [state EXCEPT !.loans = {n \in @ : last[n.holder] >= point}]

StatementAccepted(body, state, s) ==
    CASE s.op = "assign" -> OperandsAccepted(body, state, s.operands) /\ CanWrite(state, s.place)
      [] s.op = "borrow" -> CanBorrow(state, s.operands[1].place, s.how = "mutable")
      [] OTHER -> TRUE

\* The loans of `holders`, held by l too.
Passed(state, holders, l) ==
    {[n EXCEPT !.holder = l] : n \in {k \in state.loans : k.holder \in holders}}

(* Mutant: a copied reference holds no loan. *)
TransferredNone(state, s) == {}

\* transferred_loans: what is built out of a reference holds its loans too
Transferred(state, s) ==
    IF s.op = "assign" /\ s.how \in {"use", "some", "pair", "closure"}
    THEN Passed(state, LocalsOf(PlacesOf(s.operands)), Local(s.place)) ELSE {}

\* A borrow, and receiver_loan: a method bound to a value borrows it
Lent(s) ==
    CASE s.op = "borrow" -> {Loan(Local(s.place), s.operands[1].place, s.how = "mutable")}
      [] s.op = "assign" /\ s.how = "bind" ->
            {Loan(Local(s.place), o.place, o.mode = "mutable") :
                o \in {p \in Range(s.operands) : p.mode \in {"shared", "mutable"}}}
      [] OTHER -> {}

AfterStatement(body, state, s) ==
    CASE s.op = "assign" ->
            [moved |-> {p \in AfterOperands(body, state, s.operands).moved : ~Within(s.place, p)},
             loans |-> state.loans \cup Transferred(state, s) \cup Lent(s)]
      [] s.op = "borrow" -> [state EXCEPT !.loans = @ \cup Lent(s)]
      [] s.op = "dead" ->
            [moved |-> {p \in state.moved : Local(p) # Local(s.place)},
             loans |-> {n \in state.loans : Local(s.place) \notin {n.holder, Local(n.place)}}]
      [] OTHER -> state

(* A suspension moves the frame: nothing that lives in it may be borrowed.   *)
(* Nor may a returned reference refer to the frame.                         *)
TerminatorAccepted(body, state, t) ==
    /\ OperandsAccepted(body, state, t.operands)
    /\ \A l \in Delivered(t) : CanWrite(state, Whole(l))
    /\ t.op = "suspend" => \A n \in state.loans : Local(n.place) \in Arguments(body)
    /\ t.op = "return" =>
           \A n \in state.loans :
               n.holder \in LocalsOf(PlacesOf(t.operands)) \cap References(body) =>
                   Local(n.place) \in Arguments(body)

(* Mutant: what a terminator moves may be used again. *)
AfterTerminatorUnmoved(body, state, t) ==
    [state EXCEPT !.moved = {p \in @ : Local(p) \notin Delivered(t)}]

(* What is moved, less what is delivered; and call_result_loans: a reference *)
(* a call delivers holds the loans of the receiver and the arguments.       *)
AfterTerminator(body, state, t) ==
    LET moved == AfterOperands(body, state, t.operands).moved
        results == IF t.op = "call" THEN Delivered(t) \cap References(body) ELSE {}
        passed == LocalsOf(PlacesOf(Tail(t.operands)))
    IN  [moved |-> {p \in moved : Local(p) \notin Delivered(t)},
         loans |-> state.loans \cup UNION {Passed(state, passed, l) : l \in results}]

----------------------------------------------------------------------------
(* The analysis of a body (analyze_blocks).                                 *)

RECURSIVE Through(_, _, _, _, _), Analysed(_, _, _)

\* The states before the i-th statement of block b and each after it, up to
\* the one before the terminator.
Through(body, last, b, i, state) ==
    LET ss == body.blocks[b].statements
        retained == Retained(state, last, Point(b, i))
    IN  IF i > Len(ss) THEN <<retained>>
        ELSE <<retained>> \o Through(body, last, b, i + 1, AfterStatement(body, retained, ss[i]))

Exit(body, last, b, entry) ==
    AfterTerminator(body, Last(Through(body, last, b, 1, entry)), body.blocks[b].terminator)

Merged(states) ==
    IF states = {} THEN Unreached
    ELSE {[loans |-> UNION {state.loans : state \in states},
           moved |-> UNION {state.moved : state \in states}]}

\* From `entries` on, until no entry changes.
Analysed(body, last, entries) ==
    LET exits == [b \in DOMAIN entries |-> {Exit(body, last, b, state) : state \in entries[b]}]
        next == [c \in DOMAIN entries |->
                    Merged(entries[c] \cup UNION {exits[b] : b \in Sources(body, c)})]
    IN  IF next = entries THEN entries ELSE Analysed(body, last, next)

Entries(body, last) ==
    Analysed(body, last, [b \in DOMAIN body.blocks |-> IF b = 1 THEN {Clean} ELSE Unreached])

\* analyze_blocks reports nothing
Sound(body) ==
    LET last == LastUses(body)
        entries == Entries(body, last)
    IN  \A b \in DOMAIN body.blocks : \A entry \in entries[b] :
            LET before == Through(body, last, b, 1, entry)
                ss == body.blocks[b].statements
            IN  /\ \A i \in DOMAIN ss : StatementAccepted(body, before[i], ss[i])
                /\ TerminatorAccepted(body, Last(before), body.blocks[b].terminator)

(* check_ownership.  It does not stop at uses of what is not initialized: a   *)
(* use of what was moved is one of them, and analyze_blocks says it better.  *)
Accepted(body) == Valid(body) /\ Sound(body)
=============================================================================
