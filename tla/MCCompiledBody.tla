--------------------------- MODULE MCCompiledBody ---------------------------
(* Source programs to compile and run, by what they are about.  Each is a    *)
(* function with a parameter `a`; most run one or two statements out of a    *)
(* set, alone or inside branches, loops and handlers.  Or else a variable   *)
(* holds values of one type after another.                                   *)
EXTENDS CompiledBody, Lowering, ValueLayout

CONSTANT Used   \* the uses of a run: "body", "values"

VARIABLE uses

A == Name("a")
B == Name("b")
Nothings == Block(<<>>)
Take(e) == Do(Call(<<e>>, FALSE, "void"))
TryTake(e) == Do(Call(<<e>>, TRUE, "void"))
Use(x) == Do(Call(<<Name(x)>>, FALSE, "void"))

Void(ss) == Function("void", ss)
One(ss) == {Nothings} \cup {Block(<<s>>) : s \in ss}
Two(ss) == {Block(<<s, t>>) : s, t \in ss}

----------------------------------------------------------------------------
(* Moves, calls, errors, suspensions and exits, perhaps with a reference `r` *)
(* to `a` or to a local `b`, in branches, loops and handlers.               *)

Beginnings(borrows) ==
    IF borrows
    THEN {<<Let("b", New), LetRef("r", x, m)>> : x \in {"a", "b"}, m \in BOOLEAN}
    ELSE {<<Let("b", New)>>}
Endings(borrows) == IF borrows THEN {<<>>, <<Use("r")>>} ELSE {<<>>, <<Set(B, New)>>}

Straight(borrows) ==
    {Let("c", A), Set(A, Call(<<>>, TRUE, "value")), TryTake(A), Do(Await(New, TRUE)), MoveAway("b")}
    \cup (IF borrows THEN {Use("r"), Let("q", Name("r")), Set(A, New)}
          ELSE {Set(B, A), Do(Await(A, FALSE)), ReturnNothing, ThrowOf(B)})
Looping(borrows) == Straight(borrows) \cup {Break, Continue}

Compounds(straight, looping) ==
    Two(straight)
    \cup {If(s, t) : s \in One(straight), t \in {Nothings, Block(<<MoveAway("a")>>)}}
    \cup {While(s) : s \in looping \cup Two(looping)}
    \cup {While(Block(<<If(Block(<<s, t>>), Nothings), u>>)) :
             s \in straight, t \in {Break, Continue}, u \in {Set(A, New), MoveAway("b")}}
    \cup {Try(s, "e", Nothings) : s \in Two(straight)}
    \cup {Try(s, "e", Block(<<t>>)) : s \in One(straight), t \in {MoveAway("e"), ThrowOf(Name("e"))}}
    \cup {While(Block(<<Try(Block(<<s>>), "e", Block(<<t>>))>>)) :
             s \in straight, t \in {Break, Continue, MoveAway("e")}}

ControlPrograms ==
    {Void(program) : program \in
        UNION {{start \o <<middle>> \o end : start \in Beginnings(borrows),
                    middle \in Compounds(Straight(borrows), Looping(borrows)),
                    end \in Endings(borrows)} : borrows \in BOOLEAN}}

----------------------------------------------------------------------------
(* Pairs and optionals, moved whole and in parts.  Assigning a field of a    *)
(* pair that was moved whole is left out: it leaks.                         *)

First == FieldOf(Name("p"), 1)
Second == FieldOf(Name("p"), 2)
OfPair ==
    {LetPair("x", "y", Name("p")), Let("x", First), Set(First, New), Set(Name("p"), Pair(New, New)),
     Set(Name("p"), Pair(Second, First)), MoveAway("p"), TryTake(Second),
     If(Block(<<Take(First)>>), Nothings)}
PairPrograms ==
    {Void(<<Let("p", Pair(A, New)), s, t>>) :
        s \in OfPair \ {MoveAway("p"), LetPair("x", "y", Name("p"))}, t \in OfPair}
    \cup {Void(<<Let("p", Pair(A, New)), s, If(t, Nothings)>>) :
        s \in {MoveAway("p"), Let("x", Second)}, t \in {Set(Name("p"), Pair(New, New)), Take(First)}}

OfOptional ==
    {Set(Name("o"), Absent), Set(Name("o"), Some(New)), MoveAway("o"),
     Case(Name("o"), "", Block(<<Set(Name("o"), Absent)>>), Nothings),
     Case(Name("o"), "", Nothings, Block(<<ReturnNothing>>)), TryTake(Name("o"))}
OptionalPrograms ==
    {Void(<<Let("o", e), s, t>>) :
        e \in {Some(A), Call(<<>>, TRUE, "optional")}, s, t \in OfOptional}
    \cup {Void(<<Let("o", Some(A)), s, Let("x", Unwrap(Name("o"))), t>>) :
        s \in {Set(Name("o"), Some(New)), TryTake(New)}, t \in OfOptional}
    \cup {Void(<<LetElse("x", Call(<<A>>, TRUE, "optional"), e), s>>) :
        e \in {New, Call(<<>>, TRUE, "value")}, s \in {TryTake(Name("x")), MoveAway("x")}}
    \cup {Void(<<Let("x", Else(Absent, e)), TryTake(Name("x"))>>) : e \in {A, New}}

----------------------------------------------------------------------------
(* Iteration, and generators.                                               *)

OfItem == {TryTake(Name("x")), MoveAway("x"), Break, Continue, ReturnNothing}
IterationPrograms ==
    {Void(<<ForNext("x", e, how, s)>>) :
        e \in {A, Call(<<A>>, TRUE, "value")}, how \in {"declared", "generator", "async"},
        s \in One(OfItem) \cup Two(OfItem \ {MoveAway("x")})}
    \cup {Void(<<ForNext("x", A, how, s), TryTake(New)>>) :
        how \in {"declared", "generator"}, s \in One(OfItem)}
    \cup {Void(<<ForOf("x", A, s), t>>) :
        s \in One({TryTake(A), TryTake(New), Break, Continue}), t \in {MoveAway("a"), ReturnNothing}}

OfGenerator ==
    {Yield(A), Yield(New), Yield(Call(<<>>, TRUE, "value")), ReturnNothing, TryTake(A),
     While(Yield(New)), Do(Await(New, TRUE))}
GeneratorPrograms ==
    {Function("generator", <<s, t>>) : s, t \in OfGenerator}

----------------------------------------------------------------------------
(* `await using`: a scope that owns one or two resources, left in every way. *)
(* No other suspension: what a cancelled one does is another question.      *)

Leavings ==
    {TryTake(A), ReturnNothing, ThrowOf(New), Set(A, Call(<<>>, TRUE, "value")),
     If(Block(<<ReturnNothing>>), Nothings), Using("v", New)}
Scopes(inner) ==
    {Block(<<Using("u", e), s>>) : e \in {New, Call(<<A>>, TRUE, "value")}, s \in inner}
UsingPrograms ==
    {Void(<<s>>) : s \in Scopes(Leavings) \cup Scopes(Scopes({TryTake(New), ReturnNothing}))}
    \cup {Void(<<While(s)>>) : s \in Scopes(One({Break, Continue, TryTake(New)}))}
    \cup {Void(<<Try(s, "e", Block(<<t>>)), Use("a")>>) :
        s \in Scopes({TryTake(New), ThrowOf(New)}), t \in {MoveAway("e"), ThrowOf(Name("e"))}}

----------------------------------------------------------------------------
(* Calls, methods, closures and references made on the way.                 *)

OfCall ==
    {Do(Call(<<A, e>>, TRUE, "value")) :
        e \in {New, Call(<<New>>, TRUE, "value"), Call(<<RefTo("b", FALSE)>>, FALSE, "value"), B}}
    \cup {Let("c", Either(A, Call(<<>>, TRUE, "value"))), Do(Call(<<RefTo("a", TRUE), B>>, TRUE, "void")),
     Do(Both(Call(<<New>>, TRUE, "plain"), Call(<<A>>, TRUE, "plain"))),
     IfOn(Call(<<RefTo("a", FALSE)>>, TRUE, "plain"), Take(A), Nothings),
     WhileOn(Call(<<RefTo("a", FALSE)>>, TRUE, "plain"), TryTake(New)),
     Do(Method(A, "shared", <<New>>, "value")), Do(Method(A, "mutable", <<B>>, "void")),
     Do(Method(A, "move", <<Call(<<>>, TRUE, "value")>>, "value")), Set(A, B), Set(A, New)}
CallPrograms == {Void(<<Let("b", New), s, t>>) : s, t \in OfCall}

OfClosure ==
    {Do(Invoke("f")), MoveAway("f"), Set(A, New), MoveAway("a"), Let("f", Capture("b", "move")),
     Set(Name("f"), Capture("b", "shared"))}
ClosurePrograms ==
    {Void(<<Let("b", New), Let("f", Capture("a", how)), s, t>>) :
        how \in {"move", "shared", "mutable"}, s, t \in OfClosure}

OfReference ==
    {Use("q"), Use("r"), Set(A, New), MoveAway("a"), Do(Method(Name("r"), "shared", <<>>, "void")),
     Let("q", Name("r"))}
ReferencePrograms ==
    {Void(<<Let("r", RefTo("a", m)), Let("q", Call(<<RefTo("a", m)>>, FALSE, "shared")), s, t>>) :
        m \in BOOLEAN, s, t \in OfReference}
    \cup {Void(<<LetRef("r", "a", m), Let("q", Name("r")), s, t>>) :
        m \in BOOLEAN, s, t \in OfReference}

----------------------------------------------------------------------------
(* Comparisons, chains of calls, templates, construction, and markup.       *)

OfOperator ==
    {Do(Equals(A, B)), Do(Equals(A, Call(<<A>>, TRUE, "value"))), Do(Length(Call(<<B>>, FALSE, "value"))),
     Do(Equals(Call(<<New>>, TRUE, "value"), New)),
     IfOn(Equals(A, B), Take(A), TryTake(B)), WhileOn(Equals(A, Call(<<>>, TRUE, "value")), TryTake(New)),
     Let("t", Template(A)), Do(Call(<<Template(B)>>, TRUE, "void")), Do(Call(<<Template(New)>>, TRUE, "void")),
     Do(Construct(<<A, Call(<<RefTo("b", FALSE)>>, TRUE, "value")>>, TRUE)),
     Do(Construct(<<RefTo("a", TRUE), B>>, TRUE))}
OperatorPrograms ==
    {Void(<<Let("b", New), s, t>>) : s, t \in OfOperator \cup {Set(A, New), MoveAway("b")}}
    \cup {Void(<<Let("b", New), Let("t", Template(e)), s, Use("t")>>) :
        e \in {A, Call(<<A>>, FALSE, "value")}, s \in OfOperator \cup {MoveAway("a")}}

GetThen(receiver, arguments) ==
    <<Link("shared", <<New>>, "value"), Link(receiver, arguments, "value")>>
OfChain ==
    {Do(Chain(A, GetThen(r, <<e>>))) : r \in {"shared", "mutable", "move"},
        e \in {B, Call(<<New>>, TRUE, "value")}}
    \cup {Do(Maybe(Name("o"), <<<<Link(r, <<e>>, "value")>>>>)) : r \in {"shared", "mutable", "move"},
        e \in {B, Call(<<A>>, TRUE, "value")}}
    \cup {Let("x", Maybe(Call(<<>>, TRUE, "optional"), <<GetThen("move", <<A>>)>>)),
          Do(Maybe(Name("o"), <<<<Link("shared", <<>>, "optional")>>, GetThen("mutable", <<B>>)>>)),
          Set(Name("o"), Maybe(Name("o"), <<<<Link("move", <<>>, "optional")>>>>)), TryTake(Name("o"))}
ChainPrograms ==
    {Void(<<Let("b", New), Let("o", Some(New)), s, t>>) : s, t \in OfChain}

Properties(p) ==
    {<<Property(1, New), Property(2, e)>> : e \in {A, Call(<<A>>, TRUE, "value")}}
    \cup {<<Property(0, p), Property(2, New)>>, <<Property(2, A), Property(0, p)>>,
          <<Property(0, p), Property(1, Call(<<>>, TRUE, "value"))>>,
          <<Property(1, Fragment(<<A, New>>)), Property(0, p)>>}
OfMarkup ==
    {Do(Element(Opaque, ps, key)) : ps \in Properties(Name("p")),
        key \in {Absent, New, Call(<<RefTo("p", FALSE)>>, TRUE, "value")}}
    \cup {Do(Element(Name("f"), ps, Absent)) : ps \in Properties(Pair(New, B))}
    \cup {Do(Fragment(<<Element(Opaque, ps, Absent), Call(<<>>, TRUE, "value")>>)) :
        ps \in Properties(Name("p"))}
MarkupPrograms ==
    {Void(<<Let("b", New), Let("p", Pair(New, New)), Let("f", Capture("b", "shared")), s, t>>) :
        s \in OfMarkup, t \in {TryTake(Name("p")), TryTake(Second), Do(Invoke("f"))}}

----------------------------------------------------------------------------
(* Switches with guards and values, tries with two handlers, and references  *)
(* to fields.                                                               *)

Guards == {Unguarded, Call(<<New>>, TRUE, "plain"), Equals(A, Call(<<>>, TRUE, "value"))}
Switches ==
    {Match(Name("o"), <<Arm("any", "", guard, e), Arm(pattern, "", Unguarded, A), Arm("any", "", Unguarded, New)>>,
           "value") : guard \in Guards, pattern \in {"any", "absent"}, e \in {A, Call(<<New>>, TRUE, "value")}}
    \cup {Match(Call(<<>>, TRUE, "optional"),
               <<Arm("absent", "", guard, Block(<<s>>)), Arm("any", "", Opaque, Nothings),
                 Arm("any", "", Unguarded, Block(<<ReturnNothing>>))>>, "void") :
        guard \in Guards, s \in {Take(A), Set(Name("o"), Absent)}}
SwitchPrograms ==
    {Void(<<Let("o", Some(New)), Do(e), s>>) : e \in Switches, s \in {TryTake(Name("o")), MoveAway("a")}}

OfHandlers == {Nothings, Block(<<MoveAway("e")>>), Block(<<ThrowOf(Name("e"))>>), Block(<<TryTake(Name("e"))>>)}
HandlerPrograms ==
    {Void(<<TryEither(Block(<<s, TryTake(New)>>), "e", <<h, i>>), t>>) :
        s \in {TryTake(A), Using("u", New)}, h, i \in OfHandlers, t \in {TryTake(New), MoveAway("a")}}
    \cup {Void(<<While(TryEither(Block(<<TryTake(New)>>), "e", <<h, Block(<<Break>>)>>))>>) : h \in OfHandlers}

OfPart ==
    {Use("q"), Let("x", First), Set(First, New), Set(Second, New), MoveAway("p"),
     Do(Call(<<RefOf(Second, TRUE)>>, TRUE, "void")), Do(Equals(First, Second))}
PartPrograms ==
    {Void(<<Let("p", Pair(A, New)), Let("q", RefOf(e, m)), s, t>>) :
        e \in {First, Name("p")}, m \in BOOLEAN, s \in OfPart \ {MoveAway("p")}, t \in OfPart}
    \cup {Void(<<Let("p", Pair(A, New)), Let("r", RefTo("p", m)),
                 Do(Call(<<FieldOf(Name("r"), 1)>>, TRUE, "void")), s, Use("r")>>) :
        m \in BOOLEAN, s \in OfPart \ {Use("q")}}

----------------------------------------------------------------------------
(* Functions with a result.                                                 *)

Results ==
    {A, New, Either(A, New), Call(<<A>>, TRUE, "value"),
     Unwrap(Some(A)), FieldOf(Pair(A, New), 1)}
ValuePrograms ==
    {Function("value", <<s, ReturnOf(e)>>) :
        e \in Results \cup {Await(Call(<<A>>, FALSE, "value"), TRUE)},
        s \in {TryTake(New), If(Block(<<ReturnOf(A)>>), Nothings), While(ReturnOf(New)),
               Try(Block(<<ReturnOf(Call(<<New>>, TRUE, "value"))>>), "e", Block(<<ReturnOf(Name("e"))>>))}}
    \cup {Function("value", <<Using("u", New), ReturnOf(e)>>) : e \in Results}

AllPrograms ==
    ControlPrograms \cup PairPrograms \cup OptionalPrograms \cup IterationPrograms \cup GeneratorPrograms
    \cup UsingPrograms \cup CallPrograms \cup ClosurePrograms \cup ReferencePrograms \cup ValuePrograms
    \cup OperatorPrograms \cup ChainPrograms \cup MarkupPrograms
    \cup SwitchPrograms \cup HandlerPrograms \cup PartPrograms

----------------------------------------------------------------------------
(* Programs that are accepted and go wrong.                                 *)

(* A reference that a method of `a` returned, and `a` assigned to.           *)
DerivedPrograms ==
    {Void(<<Let("r", Method(A, "shared", <<>>, "shared")), s, t>>) :
        s, t \in {Use("r"), Set(A, New), MoveAway("a")}}

----------------------------------------------------------------------------
(* Each with a parameter `a`, lowered.                                      *)

Compiled(programs) == {Lowered(<<<<"a", "value">>>>, p.of, p.statements) : p \in programs}
AllBodies == Compiled(AllPrograms)
DerivedBodies == Compiled(DerivedPrograms)

----------------------------------------------------------------------------
(* Values: leaves, enumerations, structs and classes, and composites of two *)
(* of them.                                                                 *)
Status == Enum(<<<<>>, <<>>>>, <<0, 1>>)
Sparse == Enum(<<<<>>, <<>>>>, <<0, 42>>)
Message == Enum(<<<<>>, <<OwnedText, Word>>, <<OwnedText>>>>, <<0, 1, 2>>)
Box == Struct(<<OwnedText>>, {1}, FALSE)
File == Struct(<<Word, RawPointer>>, {}, TRUE)
SomeUnions == {UnionOf(<<OwnedText, ClassOf("Base")>>), UnionOf(<<Word, Message, Tuple(<<Word, OwnedText>>)>>)}
SomeClasses ==
    [Base |-> [base |-> "", fields |-> <<OwnedText>>, destructor |-> FALSE],
     Derived |-> [base |-> "Base", fields |-> <<Word, OptionalOf(OwnedText)>>, destructor |-> FALSE],
     Holder |-> [base |-> "", fields |-> <<Box, Status, RawPointer>>, destructor |-> TRUE]]
Small == {Word, OwnedText, Status, Sparse, Message, Box, File, ClassOf("Base"), ClassOf("Derived"), ClassOf("Holder")}
SomeTypes ==
    Small \cup {OptionalOf(t) : t \in Small} \cup SomeUnions
    \cup {Tuple(<<s, t>>) : s \in {Message, ClassOf("Derived"), Word}, t \in Small}
    \cup {ArrayOf(t, 2) : t \in Small}
    \cup {Enum(<<<<s>>, <<Word, t>>>>, <<0, 1>>) : s \in {OwnedText, Message}, t \in Small}
    \cup {Struct(<<s, t>>, {1}, FALSE) : s, t \in {OwnedText, Message, File, ClassOf("Derived")}}

----------------------------------------------------------------------------
\* What is not used stays in one of its initial states.
ABody == CHOOSE body \in Bodies : TRUE

Choose ==
    /\ uses \in Used
    /\ IF uses = "body" THEN Init ELSE code = ABody /\ Init
    /\ LayoutInit

UseBody == uses = "body" /\ Next /\ UNCHANGED <<uses, lvars>>
UseValues == uses = "values" /\ LayoutNext /\ UNCHANGED <<uses, vars>>

Program == Choose /\ [][UseBody \/ UseValues]_<<uses, vars, lvars>>
=============================================================================
