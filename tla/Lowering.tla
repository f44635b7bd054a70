------------------------------ MODULE Lowering ------------------------------
(* From source to MIR (crates/tn-typecheck/src/mir_lower.rs): how statements *)
(* and expressions become blocks, storage statements, moves and terminators. *)
(*                                                                           *)
(* The compiler walks the tokens and appends to the blocks it is building;   *)
(* here that builder is a record, and every operator takes one and returns   *)
(* one.  Types are those of module Mir, plain conditions are opaque, and a   *)
(* fallible function declares every error it may meet.                       *)
EXTENDS Mir

----------------------------------------------------------------------------
(* Source programs: expressions ...                                         *)

Name(x) == [form |-> "name", name |-> x]
New == [form |-> "new"]
Absent == [form |-> "absent"]
Some(e) == [form |-> "some", value |-> e]
Pair(d, e) == [form |-> "pair", values |-> <<d, e>>]
FieldOf(e, f) == [form |-> "field", owner |-> e, field |-> f]
Unwrap(e) == [form |-> "unwrap", value |-> e]
Else(e, fallback) == [form |-> "coalesce", value |-> e, fallback |-> fallback]
Either(d, e) == [form |-> "conditional", values |-> <<d, e>>]
Both(d, e) == [form |-> "and", values |-> <<d, e>>]
RefOf(e, mutable) == [form |-> "borrow", of |-> e, mutable |-> mutable]
RefTo(x, mutable) == RefOf(Name(x), mutable)
Equals(d, e) == [form |-> "equals", values |-> <<d, e>>]
Length(e) == [form |-> "length", value |-> e]
Template(e) == [form |-> "template", value |-> e]
Capture(x, how) == [form |-> "closure", name |-> x, how |-> how]
Call(arguments, fallible, result) ==
    [form |-> "call", arguments |-> arguments, fallible |-> fallible, result |-> result]
Method(owner, receiver, arguments, result) ==
    [form |-> "method", owner |-> owner, receiver |-> receiver, arguments |-> arguments,
     result |-> result]
Construct(arguments, fallible) ==
    [form |-> "construct", arguments |-> arguments, fallible |-> fallible]
\* owner.link().link() and owner?.link().link()?.link(), a link being a method call
Link(receiver, arguments, result) ==
    [receiver |-> receiver, arguments |-> arguments, result |-> result]
Chain(owner, links) == [form |-> "chain", owner |-> owner, links |-> links]
Maybe(owner, groups) == [form |-> "maybe", owner |-> owner, groups |-> groups]
\* Markup: an element with two properties, given by name (1, 2) or spread (0)
Property(name, e) == [name |-> name, value |-> e]
Element(component, properties, key) ==
    [form |-> "element", component |-> component, properties |-> properties, key |-> key]
Fragment(children) == [form |-> "fragment", children |-> children]
Invoke(x) == [form |-> "invoke", name |-> x]
Await(e, fallible) == [form |-> "await", value |-> e, fallible |-> fallible]
Opaque == [form |-> "opaque"]
\* The arms of a switch on an optional: for its absence, or for anything.
Arm(pattern, x, guard, body) ==
    [pattern |-> pattern, name |-> x, guard |-> guard, body |-> body]
Unguarded == [form |-> "unguarded"]
Match(e, arms, result) == [form |-> "match", on |-> e, arms |-> arms, result |-> result]
ExpressionForms ==
    {"name", "new", "absent", "some", "pair", "field", "unwrap", "coalesce", "conditional", "and",
     "borrow", "closure", "call", "method", "invoke", "await", "opaque", "equals", "length",
     "template", "construct", "chain", "maybe", "element", "fragment", "match"}

(* ... and statements.                                                      *)
Let(x, e) == [form |-> "let", name |-> x, value |-> e]
LetPair(x, y, e) == [form |-> "destructure", names |-> <<x, y>>, value |-> e]
LetElse(x, e, fallback) == [form |-> "default", name |-> x, value |-> e, fallback |-> fallback]
LetRef(r, x, mutable) == [form |-> "ref", name |-> r, of |-> x, mutable |-> mutable]
Using(x, e) == [form |-> "using", name |-> x, value |-> e]
Set(target, e) == [form |-> "set", target |-> target, value |-> e]
Do(e) == [form |-> "do", value |-> e]
MoveAway(x) == [form |-> "sink", name |-> x]
ReturnNothing == [form |-> "return", value |-> Opaque]
ReturnOf(e) == [form |-> "return", value |-> e]
ThrowOf(e) == [form |-> "throw", value |-> e]
Yield(e) == [form |-> "yield", value |-> e]
Break == [form |-> "break"]
Continue == [form |-> "continue"]
Block(ss) == [form |-> "block", statements |-> ss]
IfOn(e, s, otherwise) == [form |-> "if", on |-> e, then |-> s, otherwise |-> otherwise]
If(s, otherwise) == IfOn(Opaque, s, otherwise)
WhileOn(e, s) == [form |-> "while", on |-> e, body |-> s]
While(s) == WhileOn(Opaque, s)
ForOf(x, e, s) == [form |-> "for", name |-> x, of |-> e, body |-> s]
ForNext(x, e, how, s) == [form |-> "iterate", name |-> x, of |-> e, how |-> how, body |-> s]
Case(e, x, s, otherwise) ==
    Do(Match(e, <<Arm("any", x, Unguarded, s), Arm("absent", "", Unguarded, otherwise)>>, "void"))
Function(form, ss) == [form |-> "function", of |-> form, statements |-> ss]
TryEither(s, x, handlers) == [form |-> "try", body |-> s, name |-> x, handlers |-> handlers]
Try(s, x, handler) == TryEither(s, x, <<handler>>)

----------------------------------------------------------------------------
(* The builder.                                                             *)

Open == Terminator("open", <<>>, <<>>)
OpenBlock == [statements |-> <<>>, terminator |-> Open]

\* A function whose parameters have those names and kinds.
Started(parameters) ==
    [blocks |-> <<OpenBlock>>, current |-> 1,
     kinds |-> [p \in DOMAIN parameters |-> parameters[p][2]],
     names |-> [x \in {parameters[p][1] : p \in DOMAIN parameters} |->
                   CHOOSE p \in DOMAIN parameters : parameters[p][1] = x],
     temporaries |-> {}, loops |-> <<>>, handlers |-> <<>>,
     managed |-> <<<<>>>>, disposing |-> FALSE, everManaged |-> {},
     buffer |-> 0, finish |-> 0]

IsOpen(S) == S.blocks[S.current].terminator = Open

\* What follows a terminator in the same block is dropped.
Emit(S, s) ==
    IF IsOpen(S) THEN [S EXCEPT !.blocks[S.current].statements = Append(@, s)] ELSE S
EmitAll(S, ss) == FoldLeft(Emit, S, ss)

Terminate(S, t) == [S EXCEPT !.blocks[S.current].terminator = t]
TerminateIfOpen(S, t) == IF IsOpen(S) THEN Terminate(S, t) ELSE S
At(S, block) == [S EXCEPT !.current = block]

NewBlocks(S, n) == [S EXCEPT !.blocks = @ \o [i \in 1 .. n |-> OpenBlock]]
NextBlock(S) == Len(S.blocks) + 1

NextLocal(S) == Len(S.kinds) + 1
NextPlace(S) == Whole(NextLocal(S))
Unborn(S, kind) == [S EXCEPT !.kinds = Append(@, kind)]
\* temporary, then the StorageLive that always follows it
Temporary(S, kind) ==
    Emit([Unborn(S, kind) EXCEPT !.temporaries = @ \cup {NextLocal(S)}],
         StorageLive(NextLocal(S)))
\* add_local, and the storage of one
AddLocal(S, x, kind) == [Unborn(S, kind) EXCEPT !.names = (x :> NextLocal(S)) @@ @]
Named(S, x, kind) == Emit(AddLocal(S, x, kind), StorageLive(NextLocal(S)))

KindAt(S, place) == IF Len(place) = 1 THEN S.kinds[Local(place)] ELSE "value"

\* What lowering an expression gives: the builder, and the operand.
Done(S, operand) == [to |-> S, value |-> operand]
\* ... often a temporary made for it
Made(S, kind, how, operands) ==
    Done(Emit(Temporary(S, kind), Assign(NextPlace(S), how, operands)), Move(NextPlace(S)))

\* materialize_operand
Materialized(lowered, kind) ==
    IF lowered.value.mode = "constant"
    THEN Made(lowered.to, kind, "use", <<Constant>>) ELSE lowered

\* A new local of that name, and its first value.
Initialized(lowered, x, kind) ==
    Emit(Named(lowered.to, x, kind), Assign(NextPlace(lowered.to), "use", <<lowered.value>>))

----------------------------------------------------------------------------
(* Calls and suspensions.  Both give the disposals of a scope a place in the *)
(* blocks they make, and the disposals are calls and suspensions themselves. *)

\* What lowers everything: statements, expressions, and the disposal of a local.
RECURSIVE Lower(_, _)
Disposal(l) == [form |-> "dispose", local |-> l]

\* lower_async_disposals: one after the other, the youngest first
LowerDisposals(S, locals) ==
    FoldRight(LAMBDA l, T : [Lower([T EXCEPT !.disposing = TRUE], Disposal(l)).to EXCEPT
                                !.disposing = S.disposing], locals, S)

\* active_async_disposals_from: of the scopes inside `depth` of them
ManagedFrom(S, depth) == FlattenSeq(SubSeq(S.managed, depth + 1, Len(S.managed)))

\* route_error: to the innermost try, or out of the function
HandlerDepth(S) == IF S.handlers = <<>> THEN 0 ELSE Last(S.handlers).depth
Routed(S, error) ==
    IF S.handlers = <<>> THEN Terminate(S, Throw(Move(error)))
    ELSE Terminate(Emit(S, Assign(Last(S.handlers).payload, "use", <<Move(error)>>)),
                   Goto(Last(S.handlers).dispatch))
RouteError(S, error) ==
    Routed(IF S.disposing THEN S ELSE LowerDisposals(S, ManagedFrom(S, HandlerDepth(S))), error)

(* emit_call.  `callee` is the function and receiver operands, and op the    *)
(* name its terminator gets; temporaries passed to the call die on both ways *)
(* out of it.                                                                *)
EmitCall(S, callee, arguments, signature) ==
    LET operands == callee \o arguments
        passed == SelectSeq(<<callee[1]>> \o arguments,
                            LAMBDA o : Len(o.place) = 1 /\ Local(o.place) \in S.temporaries)
        deaths == [i \in DOMAIN passed |-> StorageDead(Local(passed[i].place))]
        returns == signature.result # "void"
        result == IF returns THEN NextLocal(S) ELSE 0
        delivered == IF returns THEN Temporary(S, signature.result) ELSE S
        success == NextBlock(S)
        error == NextLocal(delivered)
        typed == IF signature.fallible
                 THEN Temporary(NewBlocks(delivered, 2), "value") ELSE NewBlocks(delivered, 1)
        called == Terminate(typed, Terminator(signature.op, operands,
                      IF signature.fallible
                      THEN <<Edge(success, result), Edge(success + 1, error)>>
                      ELSE <<Edge(success, result)>>))
        routed == IF signature.fallible
                  THEN RouteError(EmitAll(At(called, success + 1), deaths), Whole(error))
                  ELSE called
    IN  Done(EmitAll(At(routed, success), deaths),
             IF returns THEN Move(Whole(result)) ELSE Constant)

Signature(op, fallible, result) == [op |-> op, fallible |-> fallible, result |-> result]

(* lower_await_operand: the promise is moved into the suspension; resumed,   *)
(* failed and cancelled each have a block of their own.                      *)
AwaitOperand(S, promise, signature) ==
    LET returns == signature.result # "void"
        result == IF returns THEN NextLocal(S) ELSE 0
        delivered == IF returns THEN Temporary(S, signature.result) ELSE S
        error == NextLocal(delivered)
        typed == IF signature.fallible THEN Temporary(delivered, "value") ELSE delivered
        resume == NextBlock(S)
        cancel == IF signature.fallible THEN resume + 2 ELSE resume + 1
        suspended == Terminate(NewBlocks(typed, cancel - resume + 1),
                         Terminator("suspend", <<Move(promise)>>,
                             IF signature.fallible
                             THEN <<Edge(resume, result), Edge(resume + 1, error), Edge(cancel, 0)>>
                             ELSE <<Edge(resume, result), Edge(cancel, 0)>>))
        routed == IF signature.fallible
                  THEN RouteError(At(suspended, resume + 1), Whole(error)) ELSE suspended
        cancelled == IF S.disposing THEN At(routed, cancel)
                     ELSE LowerDisposals(At(routed, cancel), ManagedFrom(S, 0))
    IN  Done(At(TerminateIfOpen(cancelled, Unreachable), resume),
             IF returns THEN Move(Whole(result)) ELSE Constant)

(* lower_await *)
LowerAwait(promise, signature) == AwaitOperand(promise.to, promise.value.place, signature)

\* The method of a value bound to it, in a temporary; `receiver` is its mode.
Bound(S, place, receiver) == Made(S, "method", "bind", <<Operand(place, receiver)>>)
Receiver(place, receiver) == Operand(place, IF receiver = "move" THEN "consume" ELSE "lend")

\* A disposal: the method bound to the local, its call, and the promise awaited.
Disposed(S, place) ==
    LET bound == Bound(S, place, "mutable")
    IN  LowerAwait(EmitCall(bound.to, <<bound.value, Receiver(place, "mutable")>>, <<>>,
                            Signature("dispose", FALSE, "value")),
                   Signature("suspend", FALSE, "void"))

----------------------------------------------------------------------------
(* Expressions.                                                             *)

LowerExpression(S, e) == Lower(S, e)

\* The only constant a program keeps is the absent optional.
KindOf(lowered) ==
    IF lowered.value.mode = "constant" THEN "optional"
    ELSE KindAt(lowered.to, lowered.value.place)

IsReference(S, place) == KindAt(S, place) \in {"shared", "mutable"}
Object(S, place) == IF IsReference(S, place) THEN Referent(place) ELSE place

NameOperand(S, x) ==
    LET place == Whole(S.names[x])
    IN  IF KindAt(S, place) \in CopyKinds THEN Copy(place) ELSE Move(place)


(* lower_force_unwrap: the payload, taken the way the optional was.         *)
LowerUnwrap(lowered) ==
    Done(lowered.to, Operand(Payload(lowered.value.place), lowered.value.mode))

(* An expression with a value on each of two ways: the block it starts in    *)
(* switches, each way assigns the temporary `dest`, and both join.           *)
Assigned(lowered, dest, join) ==
    Terminate(Emit(lowered.to, Assign(dest, "use", <<lowered.value>>)), Goto(join))

(* lower_coalesce: the payload of a present optional is copied.             *)
LowerCoalesce(left, fallback) ==
    LET dest == NextPlace(left.to)
        temp == Temporary(left.to, "value")
        absent == NextBlock(temp)
        switched == Terminate(NewBlocks(temp, 3),
                              Switch(Copy(left.value.place), <<absent + 1, absent>>))
        present == Assigned(Done(At(switched, absent + 1), Copy(Payload(left.value.place))),
                            dest, absent + 2)
        other == Assigned(LowerExpression(At(present, absent), fallback), dest, absent + 2)
    IN  Done(At(other, absent + 2), Move(dest))

(* lower_conditional; the condition is opaque.                              *)
LowerConditional(S, d, e) ==
    LET dest == NextPlace(S)
        temp == Temporary(S, "value")
        first == NextBlock(temp)
        switched == Terminate(NewBlocks(temp, 3), Switch(Constant, <<first, first + 1>>))
        then == Assigned(LowerExpression(At(switched, first), d), dest, first + 2)
        other == Assigned(LowerExpression(At(then, first + 1), e), dest, first + 2)
    IN  Done(At(other, first + 2), Move(dest))

(* lower_short_circuit: the right side runs only if the left does not decide *)
LowerShortCircuit(left, e) ==
    LET dest == NextPlace(left.to)
        temp == Temporary(left.to, "plain")
        right == NextBlock(temp)
        switched == Terminate(NewBlocks(temp, 3), Switch(left.value, <<right, right + 1>>))
        both == Assigned(LowerExpression(At(switched, right), e), dest, right + 2)
        short == Assigned(Done(At(both, right + 1), Constant), dest, right + 2)
    IN  Done(At(short, right + 2), Move(dest))

\* A reference to a place, in a temporary.
Borrowed(S, place, mutable) ==
    Done(Emit(Temporary(S, IF mutable THEN "mutable" ELSE "shared"),
              Borrow(NextLocal(S), place, mutable)),
         Move(NextPlace(S)))

(* lower_field_member_from: a part of a place is moved itself, and one       *)
(* behind a reference is borrowed.                                          *)
LowerField(owner, f) ==
    LET place == Append(Object(owner.to, owner.value.place), f)
    IN  IF IsReference(owner.to, owner.value.place)
        THEN Borrowed(owner.to, place, KindAt(owner.to, owner.value.place) = "mutable")
        ELSE Done(owner.to, Move(place))

(* lower_closure: by reference, or by value.                                *)
LowerClosure(S, x, how) ==
    LET captured == IF how = "move" THEN Done(S, Move(Whole(S.names[x])))
                    ELSE Borrowed(S, Whole(S.names[x]), how = "mutable")
    IN  Made(captured.to, "closure", "closure", <<captured.value>>)

(* reborrow_argument: a reference passed on is borrowed again, unless it is  *)
(* a temporary already.                                                      *)
Reborrowed(lowered) ==
    LET place == lowered.value.place
        S == lowered.to
    IN  IF place = <<>> \/ ~IsReference(S, place) \/ Local(place) \in S.temporaries
        THEN lowered
        ELSE Borrowed(S, Referent(place), KindAt(S, place) = "mutable")

(* lower_call_arguments: one after the other.                               *)
WithOperand(passed, argument) ==
    [to |-> argument.to, operands |-> Append(passed.operands, argument.value)]
NoOperands(S) == [to |-> S, operands |-> <<>>]
LowerArguments(S, es) ==
    FoldLeft(LAMBDA passed, e : WithOperand(passed, Reborrowed(LowerExpression(passed.to, e))),
             NoOperands(S), es)

\* Expressions lowered one after the other, for what is not a parameter.
LowerAll(S, es) ==
    FoldLeft(LAMBDA passed, e : WithOperand(passed, LowerExpression(passed.to, e)), NoOperands(S), es)

(* lower_aggregate and lower_enum_variant: all the fields, then the value.   *)
LowerAggregate(fields) == Made(fields.to, "pair", "pair", fields.operands)

(* lower_new of a class: what is borrowed again is so after every argument.  *)
LowerConstruct(given, e) ==
    LET passed == FoldLeft(LAMBDA again, o : WithOperand(again, Reborrowed(Done(again.to, o))),
                           NoOperands(given.to), given.operands)
    IN  EmitCall(passed.to, <<Constant>>, passed.operands, Signature("call", e.fallible, "value"))

LowerCall(passed, e) ==
    EmitCall(passed.to, <<Constant>>, passed.operands, Signature("call", e.fallible, e.result))

(* ... of a method: its owner, the arguments, then the method bound to it.  *)
CallMethod(object, passed, e) ==
    LET bound == Bound(passed.to, object, e.receiver)
    IN  EmitCall(bound.to, <<Copy(bound.value.place), Receiver(object, e.receiver)>>,
                 passed.operands, Signature("call", FALSE, e.result))
LowerMethodCall(owner, e) ==
    CallMethod(Object(owner.to, owner.value.place), LowerArguments(owner.to, e.arguments), e)

(* lower_member_chain: here each method is bound before its arguments are    *)
(* lowered.  The bound method itself is moved into the call, but for the     *)
(* last one of a chain, which lower_call calls.                             *)
CallLink(owner, link, how) ==
    LET place == Object(owner.to, owner.value.place)
        bound == Bound(owner.to, place, link.receiver)
        passed == LowerArguments(bound.to, link.arguments)
    IN  EmitCall(passed.to, <<Operand(bound.value.place, how), Receiver(place, link.receiver)>>,
                 passed.operands, Signature("call", FALSE, link.result))
LowerLinks(owner, links) == FoldLeft(LAMBDA o, link : CallLink(o, link, "move"), owner, links)
LowerChain(owner, links) == CallLink(LowerLinks(owner, Front(links)), Last(links), "copy")

RECURSIVE LowerOptional(_, _)

(* lower_optional_from_value: the links up to the next `?.` are called on    *)
(* the payload, if there is one, and the result is optional.                *)
LowerOptional(source, groups) ==
    LET root == source.value.place
        dest == NextPlace(source.to)
        temp == Temporary(source.to, "optional")
        absent == NextBlock(temp)
        switched == Terminate(NewBlocks(temp, 3), Switch(Copy(root), <<absent + 1, absent>>))
        none == Assigned(Done(At(switched, absent), Constant), dest, absent + 2)
        called == LowerLinks(Done(At(none, absent + 1), Copy(Payload(root))), Head(groups))
        value == IF Len(groups) = 1 THEN called
                 ELSE LowerOptional(Materialized(called, "optional"), Tail(groups))
        how == IF KindOf(value) = "optional" THEN "use" ELSE "some"
        stored == Emit(value.to, Assign(dest, how, <<value.value>>))
    IN  Done(At(TerminateIfOpen(stored, Goto(absent + 2)), absent + 2), Move(dest))

(* lower_binary_expression of a comparison, which consumes neither side; and *)
(* lower_string_length.                                                     *)
NonConsuming(o) == IF o.mode = "move" THEN Copy(o.place) ELSE o
LowerComparison(left, right) ==
    Made(right.to, "plain", "compare", <<NonConsuming(left.value), NonConsuming(right.value)>>)
LowerLength(receiver) == Made(receiver.to, "plain", "length", <<Copy(receiver.value.place)>>)

(* lower_template: a place is borrowed, anything else captured.  A template  *)
(* stands for its one capture.                                              *)
LowerTemplate(value, isPlace) ==
    LET captured == IF isPlace THEN Borrowed(value.to, value.value.place, FALSE) ELSE value
    IN  Made(captured.to, KindOf(captured), "use", <<captured.value>>)

(* A new array, the arguments of whose constructor are one optional, and a   *)
(* value pushed onto one (start_generator, lower_yield and markup).         *)
NewArray(S) ==
    LET options == Made(S, "plain", "some", <<Constant>>)
    IN  EmitCall(options.to, <<Constant>>, <<options.value>>, Signature("call", FALSE, "value"))
Pushed(S, array, value) ==
    LET bound == Bound(S, array, "mutable")
    IN  EmitCall(bound.to, <<bound.value, Operand(array, "lend")>>, <<value>>,
                 Signature("call", FALSE, "void")).to

----------------------------------------------------------------------------
(* Markup (lower_jsx and what it calls).  An element is a call of the        *)
(* runtime with the component, its properties as a pair, and a key.          *)

LowerArray(children) ==
    LET made == NewArray(children.to)
        array == NextPlace(made.to)
    IN  Done(FoldLeft(LAMBDA S, child : Pushed(S, array, child),
                      Initialized(made, "", "value"), children.operands),
             Move(array))
RuntimeCall(S, arguments) ==
    EmitCall(S, <<Constant>>, arguments, Signature("call", FALSE, "value"))
LowerFragment(children) ==
    LET array == LowerArray(children) IN RuntimeCall(array.to, <<array.value>>)

(* lower_jsx_properties: first the spread values, then field by field the    *)
(* last property that gives it - a part moved out of a spread value, or a    *)
(* value lowered only now.                                                  *)
LowerSpreads(S, properties) ==
    FoldLeft(LAMBDA passed, p : WithOperand(passed, IF p.name = 0 THEN LowerExpression(passed.to, p.value)
                                                    ELSE Done(passed.to, Constant)),
             NoOperands(S), properties)
LowerProperty(S, spreads, properties, field) ==
    LET given == Max({i \in DOMAIN properties : properties[i].name \in {0, field}})
    IN  IF properties[given].name = 0 THEN Done(S, Move(Append(spreads[given].place, field)))
        ELSE LowerExpression(S, properties[given].value)
LowerProperties(spread, properties) ==
    LowerAggregate(FoldLeft(
        LAMBDA passed, field : WithOperand(passed,
                                   LowerProperty(passed.to, spread.operands, properties, field)),
        NoOperands(spread.to), <<1, 2>>))

\* lower_jsx_key: a value the runtime makes a key of, and that an optional
LowerKey(S, e) ==
    LET value == Reborrowed(LowerExpression(S, e))
        key == RuntimeCall(value.to, <<value.value>>)
    IN  IF e = Absent THEN Done(S, Constant) ELSE Made(key.to, "optional", "some", <<key.value>>)

LowerElement(component, properties, e) ==
    LET props == LowerProperties(LowerSpreads(component.to, properties), properties)
        key == LowerKey(props.to, e)
    IN  RuntimeCall(key.to, <<component.value, props.value, key.value>>)

----------------------------------------------------------------------------
(* Statements.                                                              *)

LowerStatement(S, s) == Lower(S, s).to

(* What follows a return, a throw, a break or a continue gets a block that   *)
(* nothing leads to.                                                        *)
LowerSequence(S, ss) ==
    FoldLeft(LAMBDA T, s : IF IsOpen(T) THEN LowerStatement(T, s)
                           ELSE LowerStatement(At(NewBlocks(T, 1), NextBlock(T)), s),
             S, ss)

(* A block in braces: its managed locals are disposed of, then the storage   *)
(* of every local made in it dies, the youngest first.                       *)
DisposedIfOpen(S, locals) == IF IsOpen(S) THEN LowerDisposals(S, locals) ELSE S

Left(inside, S) ==
    LET made == [i \in 1 .. Len(inside.kinds) - Len(S.kinds) |->
                    StorageDead(Len(inside.kinds) + 1 - i)]
    IN  [EmitAll(inside, made) EXCEPT !.names = S.names]
LowerBlock(S, ss) ==
    LET inside == LowerSequence([S EXCEPT !.managed = Append(@, <<>>)], ss)
    IN  Left(DisposedIfOpen([inside EXCEPT !.managed = S.managed], Last(inside.managed)), S)

LowerLocal(value, x) == Initialized(value, x, KindOf(value))

(* lower_binding_pattern: the parts are moved out of the value.             *)
LowerPattern(value, names) ==
    LET root == NextPlace(value.to)
        first == Initialized(Done(LowerLocal(value, ""), Move(Append(root, 1))), names[1], "value")
    IN  Initialized(Done(first, Move(Append(root, 2))), names[2], "value")

(* lower_binding_default; the root stands for its optional part.            *)
LowerDefault(value, x, fallback) ==
    LET root == NextPlace(value.to)
        bound == Named(Initialized(value, "", "optional"), x, "value")
        dest == Whole(bound.names[x])
        present == NextBlock(bound)
        switched == Terminate(NewBlocks(bound, 3), Switch(Copy(root), <<present, present + 1>>))
        taken == Assigned(Done(At(switched, present), Move(Payload(root))), dest, present + 2)
        other == Assigned(LowerExpression(At(taken, present + 1), fallback), dest, present + 2)
    IN  At(other, present + 2)

LowerUsing(value, x) ==
    LET l == NextLocal(value.to)
    IN  [Initialized(value, x, "value") EXCEPT
            !.managed[Len(value.to.managed)] = Append(@, l), !.everManaged = @ \cup {l}]

(* lower_expression_statement: the place, then the value; a result nobody    *)
(* wants is kept in a temporary.                                            *)
Stored(place, value) == Emit(value.to, Assign(place, "use", <<value.value>>))
LowerAssignment(target, e) == Stored(target.value.place, LowerExpression(target.to, e))

Kept(lowered) ==
    IF lowered.value.mode = "constant" THEN lowered.to
    ELSE Made(lowered.to, KindAt(lowered.to, lowered.value.place), "use", <<lowered.value>>).to

(* lower_return: the operand, the disposals of every scope, and out.  A      *)
(* generator goes to the block that hands its buffer over.                   *)
EveryDisposal(S) == LowerDisposals(S, ManagedFrom(S, 0))
EveryDisposalIfOpen(S) == IF IsOpen(S) THEN EveryDisposal(S) ELSE S
Returned(value) == Terminate(EveryDisposal(value.to), Return(value.value))

(* Mutant: a generator returns like any other function. *)
LowerReturnDirectly(S, e) == Returned(LowerExpression(S, e))

LowerReturn(S, e) ==
    IF S.finish # 0 THEN Terminate(S, Goto(S.finish)) ELSE Returned(LowerExpression(S, e))

(* lower_throw: out, whatever try it is in.                                 *)
LowerThrow(value) == Terminate(EveryDisposal(value.to), Throw(value.value))

(* lower_yield *)
LowerYield(value) == Pushed(value.to, Whole(value.to.buffer), value.value)

(* Mutant: a loop is left without the disposals of the scopes inside it. *)
LowerLoopControlUndisposed(S, form) ==
    IF S.loops = <<>> THEN S ELSE TerminateIfOpen(S, Goto(Last(S.loops)[form]))

LowerLoopControl(S, form) ==
    IF S.loops = <<>> THEN S
    ELSE LET loop == Last(S.loops)
         IN  TerminateIfOpen(LowerDisposals(S, ManagedFrom(S, loop.depth)), Goto(loop[form]))

\* A statement as the body of a loop, and the way back.
LoopBody(S, next, exit, s) ==
    LET loop == [continue |-> next, break |-> exit, depth |-> Len(S.managed)]
        inside == LowerStatement([S EXCEPT !.loops = Append(@, loop)], s)
    IN  TerminateIfOpen([inside EXCEPT !.loops = S.loops], Goto(next))

LowerIf(condition, then, otherwise) ==
    LET first == NextBlock(condition.to)
        join == Goto(first + 2)
        switched == Terminate(NewBlocks(condition.to, 3),
                              Switch(condition.value, <<first, first + 1>>))
        taken == TerminateIfOpen(LowerStatement(At(switched, first), then), join)
        other == TerminateIfOpen(LowerStatement(At(taken, first + 1), otherwise), join)
    IN  At(other, first + 2)

Looped(condition, first, body) ==
    LET switched == Terminate(condition.to, Switch(condition.value, <<first + 1, first + 2>>))
    IN  At(LoopBody(At(switched, first + 1), first, first + 2, body), first + 2)
LowerWhile(S, on, body) ==
    LET first == NextBlock(S)
    IN  Looped(LowerExpression(At(Terminate(NewBlocks(S, 3), Goto(first)), first), on), first, body)

\* The rounds of an indexed loop: each binds the element, and the index moves on.
ForIndex(condition, bind, advance, first, body) ==
    LET switched == Terminate(condition.to, Switch(condition.value, <<first + 1, first + 3>>))
        entered == EmitAll(At(switched, first + 1), <<StorageLive(Local(bind.place)), bind>>)
        looped == At(LoopBody(entered, first + 2, first + 3, body), first + 2)
    IN  At(Terminate(Emit(looped, advance), Goto(first)), first + 3)

(* lower_for: an index and a length, and plain elements.                    *)
LowerFor(iterable, x, body) ==
    LET place == Object(iterable.to, iterable.value.place)
        bound == AddLocal(iterable.to, x, "plain")
        binding == NextPlace(iterable.to)
        index == NextPlace(bound)
        counted == Temporary(Temporary(bound, "plain"), "plain")
        length == Whole(Len(counted.kinds))
        set == EmitAll(counted, <<Assign(index, "use", <<Constant>>),
                                  Assign(length, "use", <<Operand(place, "shared")>>)>>)
        first == NextBlock(set)
    IN  ForIndex(Made(At(Terminate(NewBlocks(set, 4), Goto(first)), first),
                      "plain", "use", <<Copy(index), Copy(length)>>),
                 Assign(binding, "use", <<Operand(place, "index"), Copy(index)>>),
                 Assign(index, "use", <<Copy(index)>>), first, body)

(* lower_witness_for and lower_generator_for.  A declared collection is      *)
(* turned into its iterator, which `next` is called on; a generator is its   *)
(* own iterator, and an async one is awaited: when that is cancelled the     *)
(* loop just ends.                                                          *)
Iterator(source, how) ==
    LET into == Bound(source.to, source.value.place, "move")
    IN  IF how # "declared" THEN source
        ELSE EmitCall(into.to, <<into.value, Receiver(source.value.place, "move")>>,
                      <<>>, Signature("call", FALSE, "value"))

\* The next item, from an async generator in block `resumed` of the loop.
CallNext(next, place, how) ==
    EmitCall(next.to, <<next.value, Receiver(place, "mutable")>>, <<>>,
             Signature("call", FALSE, IF how = "async" THEN "value" ELSE "optional"))
AwaitNext(promise, resumed, exit) ==
    LET S == Temporary(promise.to, "optional")
        item == NextLocal(promise.to)
    IN  Done(At(Terminate(S, Terminator("suspend", <<promise.value>>,
                                 <<Edge(resumed, item), Edge(exit, 0)>>)), resumed),
             Move(Whole(item)))

\* The binding gets the item's payload, if there is one.
ForItem(item, binding, first, exit, body) ==
    LET switched == Terminate(item.to, Switch(Copy(item.value.place), <<exit - 1, exit>>))
        entered == EmitAll(At(switched, exit - 1),
                           <<StorageLive(Local(binding)),
                             Assign(binding, "use", <<Move(Payload(item.value.place))>>)>>)
    IN  At(LoopBody(entered, first, exit, body), exit)

LowerIteration(iterator, x, how, body) ==
    LET place == iterator.value.place
        bound == AddLocal(iterator.to, x, "value")
        first == NextBlock(bound)
        exit == IF how = "declared" THEN first + 2 ELSE first + 3
        looped == At(Terminate(NewBlocks(bound, exit - first + 1), Goto(first)), first)
        called == CallNext(Bound(looped, place, "mutable"), place, how)
    IN  ForItem(IF how = "async" THEN AwaitNext(called, first + 1, exit) ELSE called,
                NextPlace(iterator.to), first, exit, body)

(* lower_match on an optional.  An arm binds a copy of the payload, may have *)
(* a guard, and is a statement, or an expression for the destination.       *)
LowerArm(S, place, arm, fallback, dest, join) ==
    LET bound == IF arm.name = "" THEN S
                 ELSE Initialized(Done(S, Copy(Payload(place))), arm.name, "value")
        guard == LowerExpression(bound, arm.guard)
        chosen == NextBlock(guard.to)
        guarded == Terminate(NewBlocks(guard.to, 1), Switch(guard.value, <<chosen, fallback>>))
        entered == IF arm.guard = Unguarded THEN bound ELSE At(guarded, chosen)
    IN  IF arm.body.form \in ExpressionForms
        THEN Assigned(LowerExpression(entered, arm.body), dest, join)
        ELSE TerminateIfOpen(LowerStatement(entered, arm.body), Goto(join))

\* The first arm, after the i-th, that a value of that pattern may go to.
ArmFor(arms, i, pattern) ==
    Min({Len(arms) + 1} \cup {j \in i + 1 .. Len(arms) : arms[j].pattern \in {pattern, "any"}})

\* match_fallback; the arm after the last is the block that is unreachable
Fallback(arms, i) == ArmFor(arms, i, arms[i].pattern)

\* The target of the switch: the arm for its absence, however late, or the default.
FirstArm(arms, pattern) ==
    LET own == {i \in DOMAIN arms : arms[i].pattern = pattern}
    IN  IF own # {} THEN Min(own) ELSE ArmFor(arms, 0, "any")

LowerMatch(scrutinee, arms, result) ==
    LET place == scrutinee.value.place
        returns == result # "void"
        dest == IF returns THEN NextPlace(scrutinee.to) ELSE <<>>
        S == IF returns THEN Temporary(scrutinee.to, result) ELSE scrutinee.to
        before == NextBlock(S) - 1
        otherwise == NextBlock(S) + Len(arms)
        switched == Terminate(NewBlocks(S, Len(arms) + 2),
                        Switch(Copy(place), <<before + FirstArm(arms, "any"),
                                              before + FirstArm(arms, "absent")>>))
        lowered == FoldLeftDomain(
                       LAMBDA T, i : LowerArm(At(T, before + i), place, arms[i],
                                              before + Fallback(arms, i), dest, otherwise + 1),
                       switched, arms)
    IN  Done(At(Terminate(At(lowered, otherwise), Unreachable), otherwise + 1),
             IF returns THEN Move(dest) ELSE Constant)

(* lower_try.  An error goes to the first catch whose type it has, in a      *)
(* block of its own; one that none handles is thrown on.                    *)
LowerCatch(S, payload, x, handler, join) ==
    TerminateIfOpen(LowerStatement(Initialized(Done(S, Move(payload)), x, "value"), handler), join)

LowerTry(S, body, x, handlers) ==
    LET payload == NextPlace(S)
        dispatch == NextBlock(S)
        join == Goto(dispatch + 1)
        context == [dispatch |-> dispatch, payload |-> payload, depth |-> Len(S.managed)]
        tried == LowerStatement([NewBlocks(Temporary(S, "value"), Len(handlers) + 2) EXCEPT
                                    !.handlers = Append(@, context)], body)
        done == TerminateIfOpen([tried EXCEPT !.handlers = S.handlers], join)
        otherwise == NextBlock(done)
        catches == [i \in DOMAIN handlers |-> dispatch + 1 + i]
        dispatched == Terminate(At(NewBlocks(done, 1), dispatch),
                                Switch(Copy(payload), Append(catches, otherwise)))
        handled == FoldLeftDomain(
                       LAMBDA T, i : LowerCatch(At(T, catches[i]), payload, x, handlers[i], join),
                       dispatched, handlers)
    IN  At(Terminate(At(handled, otherwise), Throw(Move(payload))), dispatch + 1)

----------------------------------------------------------------------------
(* Functions, and everything.                                               *)

(* start_generator: the buffer, made before anything else.                  *)
StartGenerator(S) ==
    LET buffer == NextLocal(S)
        made == NewArray(Named(S, "", "value"))
        kept == Emit(made.to, Assign(Whole(buffer), "use", <<made.value>>))
    IN  [NewBlocks(kept, 1) EXCEPT !.buffer = buffer, !.finish = NextBlock(kept)]

(* finish_generator: the buffer becomes an iterator, which is returned.      *)
FinishGenerator(S) ==
    LET handed == At(IF S.current = S.finish THEN S ELSE TerminateIfOpen(S, Goto(S.finish)), S.finish)
        made == EmitCall(handed, <<Constant>>, <<Move(Whole(S.buffer))>>,
                         Signature("call", FALSE, "value"))
        result == Made(made.to, "value", "use", <<made.value>>)
    IN  Terminate(result.to, Return(result.value))

Finished(S, form) ==
    IF form = "generator" THEN FinishGenerator(EveryDisposalIfOpen(S)) ELSE EveryDisposalIfOpen(S)

LowerFunction(S, form, ss) ==
    Finished(LowerSequence(IF form = "generator" THEN StartGenerator(S) ELSE S, ss), form)

(* lower_expression_range *)
ExpressionOf(S, e) ==
    CASE e.form = "name" -> Done(S, NameOperand(S, e.name))
      [] e.form = "new" -> Made(S, "value", "new", <<>>)
      [] e.form \in {"absent", "opaque"} -> Done(S, Constant)
      [] e.form = "some" ->
            LET value == LowerExpression(S, e.value)
            IN  Made(value.to, "optional", "some", <<value.value>>)
      [] e.form = "pair" -> LowerAggregate(LowerAll(S, e.values))
      [] e.form = "field" -> LowerField(LowerExpression(S, e.owner), e.field)
      [] e.form = "unwrap" -> LowerUnwrap(LowerExpression(S, e.value))
      [] e.form = "coalesce" -> LowerCoalesce(Materialized(LowerExpression(S, e.value), "optional"), e.fallback)
      [] e.form = "conditional" -> LowerConditional(S, e.values[1], e.values[2])
      [] e.form = "and" -> LowerShortCircuit(LowerExpression(S, e.values[1]), e.values[2])
      [] e.form = "borrow" ->
            LET source == LowerExpression(S, e.of)
            IN  Borrowed(source.to, source.value.place, e.mutable)
      [] e.form = "closure" -> LowerClosure(S, e.name, e.how)
      [] e.form = "call" -> LowerCall(LowerArguments(S, e.arguments), e)
      [] e.form = "method" -> LowerMethodCall(LowerExpression(S, e.owner), e)
      [] e.form = "invoke" ->
            EmitCall(S, <<Copy(Whole(S.names[e.name]))>>, <<>>, Signature("call", FALSE, "void"))
      [] e.form = "await" ->
            LowerAwait(LowerExpression(S, e.value), Signature("suspend", e.fallible, "value"))
      [] e.form = "equals" ->
            LET left == LowerExpression(S, e.values[1])
            IN  LowerComparison(left, LowerExpression(left.to, e.values[2]))
      [] e.form = "length" -> LowerLength(LowerExpression(S, e.value))
      [] e.form = "template" -> LowerTemplate(LowerExpression(S, e.value), e.value.form \in {"name", "field"})
      [] e.form = "construct" -> LowerConstruct(LowerAll(S, e.arguments), e)
      [] e.form = "chain" -> LowerChain(LowerExpression(S, e.owner), e.links)
      [] e.form = "maybe" -> LowerOptional(Materialized(LowerExpression(S, e.owner), "optional"), e.groups)
      [] e.form = "element" -> LowerElement(LowerExpression(S, e.component), e.properties, e.key)
      [] e.form = "fragment" -> LowerFragment(LowerAll(S, e.children))
      [] e.form = "match" ->
            LowerMatch(Materialized(LowerExpression(S, e.on), "optional"), e.arms, e.result)

(* lower_statement *)
StatementOf(S, s) ==
    CASE s.form = "let" -> LowerLocal(LowerExpression(S, s.value), s.name)
      [] s.form = "destructure" -> LowerPattern(LowerExpression(S, s.value), s.names)
      [] s.form = "default" -> LowerDefault(LowerExpression(S, s.value), s.name, s.fallback)
      [] s.form = "ref" ->
            Emit(Named(S, s.name, IF s.mutable THEN "mutable" ELSE "shared"),
                 Borrow(NextLocal(S), Whole(S.names[s.of]), s.mutable))
      [] s.form = "using" -> LowerUsing(LowerExpression(S, s.value), s.name)
      [] s.form = "set" -> LowerAssignment(LowerExpression(S, s.target), s.value)
      [] s.form = "do" /\ s.value.form = "await" -> LowerExpression(S, s.value).to
      [] s.form = "do" /\ s.value.form # "await" -> Kept(LowerExpression(S, s.value))
      [] s.form = "sink" -> Kept(Done(S, Move(Whole(S.names[s.name]))))
      [] s.form = "return" -> LowerReturn(S, s.value)
      [] s.form = "throw" -> LowerThrow(LowerExpression(S, s.value))
      [] s.form = "yield" -> LowerYield(LowerExpression(S, s.value))
      [] s.form \in {"break", "continue"} -> LowerLoopControl(S, s.form)
      [] s.form = "block" -> LowerBlock(S, s.statements)
      [] s.form = "function" -> LowerFunction(S, s.of, s.statements)
      [] s.form = "if" -> LowerIf(LowerExpression(S, s.on), s.then, s.otherwise)
      [] s.form = "while" -> LowerWhile(S, s.on, s.body)
      [] s.form = "for" -> LowerFor(LowerExpression(S, s.of), s.name, s.body)
      [] s.form = "iterate" ->
            LowerIteration(Iterator(LowerExpression(S, s.of), s.how), s.name, s.how, s.body)
      [] s.form = "try" -> LowerTry(S, s.body, s.name, s.handlers)

Lower(S, x) ==
    CASE x.form \in ExpressionForms -> ExpressionOf(S, x)
      [] x.form = "unguarded" -> Done(S, Constant)
      [] x.form = "dispose" -> Disposed(S, Whole(x.local))
      [] OTHER -> Done(StatementOf(S, x), Constant)

----------------------------------------------------------------------------
(* Functions.                                                               *)

(* The end of a function: a block left open returns if there is nothing to   *)
(* return, and is unreachable otherwise (finish).                           *)
Closed(S, form) ==
    [b \in DOMAIN S.blocks |->
        IF S.blocks[b].terminator # Open THEN S.blocks[b]
        ELSE [S.blocks[b] EXCEPT !.terminator = IF form = "void" THEN Return(Constant) ELSE Unreachable]]

FunctionOf(S, form, parameters) ==
    [blocks |-> Closed(S, form), kinds |-> S.kinds,
     arguments |-> Len(parameters), returns |-> form # "void", managed |-> S.everManaged]

(* A function "void", with a "value" to return or a "generator".            *)
Lowered(parameters, form, ss) ==
    FunctionOf(LowerStatement(Started(parameters), Function(form, ss)), form, parameters)
=============================================================================
