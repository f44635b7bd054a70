----------------------------- MODULE MCProgram -----------------------------
(***************************************************************************)
(* A compiled program uses one thing: promises and task groups, the bridge *)
(* to Node, the reactor, typed errors, or operators on values.             *)
(***************************************************************************)
EXTENDS MCTasks, NodeBridge, Reactor, TypedErrors, Scalars

CONSTANTS Chosen,    \* the numbers of the bridge's programs
          TextBytes, \* the bytes of texts
          reader, writer, d1, d2

-----------------------------------------------------------------------------
(* The bridge: exports like those of validation/node, and more: every type *)
(* a value can cross with, functions, asynchronous functions, and a class. *)

SmallBits == [i8 |-> 3, i16 |-> 4, i32 |-> 6, word |-> 8, f32 |-> 4]

I32 == Scalar("i32")
Vector == Array(Scalar("i8"))
Failure == [fields |-> <<[public |-> TRUE, ty |-> I32, v |-> 17], [public |-> FALSE, ty |-> I32, v |-> 3]>>]

Plain(parameters, gives, does, value) ==
    [name |-> "function", kind |-> "function", async |-> FALSE, unsafe |-> FALSE, static |-> FALSE, parameters |-> parameters,
     result |-> gives, errors |-> <<>>, body |-> does, value |-> value]
Echo(ty) == Plain(<<ty>>, ty, "echo", 0)
Make(parameters, gives, value) == Plain(parameters, gives, "make", value)
Fallible(f) == [f EXCEPT !.errors = <<Failure>>]
Async(f) == [f EXCEPT !.async = TRUE, !.result = Promise(f.result)]
Method(f) == [f EXCEPT !.kind = "method"]
Static(f) == [f EXCEPT !.kind = "method", !.static = TRUE]

ScalarTypes == {"bool", "i8", "i16", "i32", "u8", "u16", "u32", "i64", "u64", "i128", "u128", "f32", "f64", "char"}
Functions ==
    [s \in ScalarTypes |-> Echo(Scalar(s))] @@
    [ echoString |-> Echo(String), echoBytes |-> Fallible(Echo(Bytes)),
      optional |-> Echo(Optional(I32)), fixed |-> Echo(Fixed(Scalar("u8"), 2)),
      echoArray |-> Echo(Vector), perhaps |-> Echo(Optional(Vector)), pair |-> Echo(Fixed(Vector, 2)),
      vectorLength |-> Make(<<Reference(Vector)>>, Scalar("u64"), 2), makeVector |-> Make(<<>>, Vector, <<3, -4>>),
      take |-> Make(<<Vector, String>>, Void, 0), syncFail |-> Fallible(Make(<<Vector>>, I32, 5)),
      immediate |-> Async(Echo(I32)), asyncEcho |-> Async(Echo(Bytes)), asyncFail |-> Async(Fallible(Echo(I32))),
      asyncTake |-> Async(Make(<<Vector>>, I32, 7)), asyncVector |-> Async(Echo(Vector)),
      Counter |-> [Plain(<<I32>>, Void, "make", 0) EXCEPT !.kind = "constructor"],
      increment |-> Method(Echo(I32)), reserve |-> Method(Echo(Vector)), origin |-> Static(Fallible(Echo(I32))) ]

To(name, arguments) == [to |-> [Functions[name] EXCEPT !.name = name], arguments |-> arguments, on |-> 0, throws |-> 0]
On(c, name, arguments) == [To(name, arguments) EXCEPT !.on = c]
Fails(call) == [call EXCEPT !.throws = 1]
Numbers(s) == List([i \in DOMAIN s |-> Number(s[i])])

\* Boundary values of each scalar type, and the first ones outside.
AtBounds(s) ==
    CASE s \in {"i8", "i16"} -> {Number(n) : n \in {-(2 ^ (SmallBits[s] - 1)) - 1, -(2 ^ (SmallBits[s] - 1)), 2 ^ (SmallBits[s] - 1) - 1, 2 ^ (SmallBits[s] - 1)}}
      [] s = "u8" -> {Number(n) : n \in {-1, 0, 7, 8}}
      [] s = "u16" -> {Number(n) : n \in {-1, 0, 15, 16}}
      [] s = "i32" -> {Number(n) : n \in {-32, 31}} \cup {BigInt(1)}
      [] s = "u32" -> {Number(n) : n \in {0, 63}}
      [] s = "i64" -> {BigInt(n) : n \in {-129, -128, 127, 128}} \cup {Number(1)}
      [] s = "u64" -> {BigInt(n) : n \in {-1, 0, 255, 256}}
      [] s = "i128" -> {BigInt(n) : n \in {-32768, 32767}}
      [] s = "u128" -> {BigInt(n) : n \in {-1, 65535, 65536}}
      [] s = "char" -> {Number(n) : n \in {-1, 0, 19, 20, 23, 24, 40, 41}}
      [] s \in {"f32", "f64"} -> {Number(n) : n \in {-15, 15}} \cup {Text("a")}
      [] s = "bool" -> {Boolean(TRUE), Boolean(FALSE), Number(1)}

ProgramSets == <<
    {<<To(s, <<v>>)>> : <<s, v>> \in UNION {{s} \X AtBounds(s) : s \in ScalarTypes}},
    { <<To("echoString", <<Text("a")>>), To("echoBytes", <<Octets("a")>>), To("echoBytes", <<Text("a")>>)>>,
      <<To("optional", <<Undefined>>), To("optional", <<Number(4)>>), To("i8", <<>>)>>,
      <<To("fixed", <<Numbers(<<1, 7>>)>>), To("fixed", <<Numbers(<<1>>)>>), To("fixed", <<Numbers(<<1, 8>>)>>)>>,
      <<To("echoArray", <<Numbers(<<3, -4>>)>>), To("echoArray", <<Numbers(<<3, 4>>)>>), To("echoArray", <<Number(1)>>)>>,
      <<To("perhaps", <<Numbers(<<1>>)>>), To("perhaps", <<Undefined>>), To("makeVector", <<>>)>>,
      <<To("pair", <<List(<<Numbers(<<1>>), Numbers(<<2>>)>>)>>), To("vectorLength", <<Numbers(<<31, 2>>)>>)>>,
      <<To("take", <<Numbers(<<1>>), Text("a")>>), To("syncFail", <<Numbers(<<1>>)>>), Fails(To("syncFail", <<Numbers(<<1>>)>>))>> },
    { <<To("immediate", <<Number(31)>>), To("asyncEcho", <<Octets("a")>>)>>,
      <<To("asyncTake", <<Numbers(<<1, 2>>)>>), Fails(To("asyncFail", <<Number(5)>>))>>,
      <<To("asyncFail", <<Number(5)>>), To("asyncVector", <<Numbers(<<1>>)>>)>>,
      <<Fails(To("asyncFail", <<Number(5)>>)), To("take", <<Numbers(<<1>>), Text("a")>>), To("immediate", <<Text("a")>>)>> },
    { <<To("Counter", <<Number(5)>>), On(1, "increment", <<Number(7)>>), To("Counter", <<Text("a")>>)>>,
      <<To("Counter", <<Number(5)>>), On(1, "reserve", <<Numbers(<<1>>)>>), To("increment", <<Number(7)>>)>>,
      <<To("origin", <<Number(5)>>), Fails(To("origin", <<Number(5)>>)), To("Counter", <<Number(1)>>)>> } >>

MCPrograms == UNION {ProgramSets[i] : i \in Chosen}
MCGarbage == {<<0, 0>>, <<1, 3>>}

-----------------------------------------------------------------------------
(* The reactor: a task that reads its socket twice and one that writes to   *)
(* another once, while a thread polls.                                     *)
Sockets == (reader :> d1) @@ (writer :> d2)
Interests == (reader :> "in") @@ (writer :> "out")
Rounds == (reader :> 2) @@ (writer :> 1)

-----------------------------------------------------------------------------
(* Errors: 2 extends 1, and 3 is a struct.  The lists of a chain agree in   *)
(* the numbers of the types that come through, since those are ahead of     *)
(* all others: of the chains in which they are not, one is TestProgram.     *)
Bases == [e \in Effects |-> IF e = 2 THEN 1 ELSE e]
Caller(declares, reaching, more, catches) ==
    [declares |-> declares, reaching |-> reaching, mentions |-> reaching \cup more, catches |-> catches]
CallersOf(f) ==
    {g \in {Caller(d, f.declares \cup r, m, c) :
              d \in SUBSET Effects, r \in {{}, {3}}, m \in {{}, {3}}, c \in {<<>>, <<1>>, <<2, 1>>, <<1, 3>>}} :
        /\ WellTyped(<<f, g>>)
        /\ IsPrefix(Sorted(f.declares), Sorted(IF g.catches = <<>> THEN g.declares ELSE g.mentions))
        /\ g.catches = <<>> => g.mentions = f.declares}
Throwers == {Caller(d, {}, {}, <<>>) : d \in SUBSET Effects \ {{}}}
Chains == UNION {UNION {{<<f, g, h>> : h \in {h \in CallersOf(g) : h.declares \subseteq g.declares}} :
                            g \in CallersOf(f)} : f \in Throwers}

\* A function that declares 3 is called in a `try` whose block mentions 2 as well
\* (crates/tn-typecheck/tests/ownership.rs:1519).
TestProgram == {<<Caller({3}, {}, {}, <<>>), Caller({}, {2, 3}, {}, <<1, 3>>)>>}

-----------------------------------------------------------------------------
(* Operators: all values of the narrow types, those at the boundaries of a  *)
(* wide one, and texts of up to three bytes.                                *)
IntType(bits, signed) == [bits |-> bits, signed |-> signed]
Widths == {IntType(b, s) : b \in {3, 4, 14}, s \in BOOLEAN}
Tried == [ty \in Widths |->
    LET n == 2 ^ ty.bits
    IN IF ty.bits <= 4 THEN 0 .. n - 1 ELSE {0, 1, 2, 5, n \div 2 - 1, n \div 2, n - 2, n - 1}]
SomeFloats == {[bits |-> 0, order |-> 0], [bits |-> 64, order |-> 0], [bits |-> 5, order |-> 1], [bits |-> 69, order |-> -1]}
SomeTexts == UNION {[1 .. n -> TextBytes] : n \in 0 .. 3}
OfKind(kind, ty, values) == {[of |-> kind, type |-> ty, is |-> x] : x \in values}
SomeOthers == <<
    OfKind("bool", IntType(1, FALSE), 0 .. 1), OfKind("char", IntType(4, FALSE), {0, 1, 15}),
    OfKind("optional", {}, {[present |-> FALSE, value |-> 0], [present |-> TRUE, value |-> 1], [present |-> TRUE, value |-> 2]}),
    OfKind("class", {}, 1 .. 2), OfKind("class", {"Add", "Equal"}, 1 .. 2), OfKind("struct", {"Add", "Ord"}, 1 .. 2) >>

-----------------------------------------------------------------------------
\* What is not used stays in one of its initial states.
AProgram == CHOOSE p \in Programs : TRUE
AChain == CHOOSE p \in Accepts : TRUE

Choose ==
    /\ ChooseTasks
    /\ uses \notin {"promise", "executor"} => script[Worker] = <<>>
    /\ IF uses = "bridge" THEN program \in Programs ELSE program = AProgram /\ stale = <<0, 0>>
    /\ IF uses = "errors" THEN callers \in Accepts ELSE callers = AChain /\ at = 1
    /\ IF uses = "operators" THEN ScalarsInit ELSE result = NotYet /\ Asked("interfaces", "", OfText(<<>>), OfText(<<>>))
    /\ BridgeInit /\ ReactorInit /\ ErrorsInit

tasks == <<pvars, vars>>
UseTasks == (UsePromise \/ UseExecutor) /\ UNCHANGED <<bvars, rvars, evars, scalars>>
UseBridge == uses = "bridge" /\ BridgeNext /\ UNCHANGED <<uses, tasks, rvars, evars, scalars>>
UseReactor == uses = "reactor" /\ ReactorNext /\ UNCHANGED <<uses, tasks, bvars, evars, scalars>>
UseErrors == uses = "errors" /\ ErrorsNext /\ UNCHANGED <<uses, tasks, bvars, rvars, scalars>>
UseScalars == uses = "operators" /\ ScalarsNext /\ UNCHANGED <<uses, tasks, bvars, rvars, evars>>

all == <<uses, tasks, bvars, rvars, evars, scalars>>
Program == Choose /\ [][UseTasks \/ UseBridge \/ UseReactor \/ UseErrors \/ UseScalars]_all

\* The fairness of the tasks, of the bridge and of the reactor.
OnBridge(A) == uses = "bridge" /\ A
OnReactor(A) == uses = "reactor" /\ A
FairProgram ==
    /\ Program
    /\ TasksFairness
    /\ WF_code(OnBridge(code # <<>> /\ (Proceed \/ Abandon)))
    /\ WF_bvars(OnBridge(\E c \in ProgramCalls : Execute(c) \/ Finish(c)))
    /\ WF_bvars(OnBridge(\E c \in ProgramCalls : Complete(c)))
    /\ \A t \in Parties : WF_rvars(OnReactor(Runs(t)))
    /\ \A w \in Waiters : SF_rvars(OnReactor(Locks(w)))
    /\ \A d \in Descriptors : SF_rvars(OnReactor(\E w \in Waiters : Reports(w, d)))
=============================================================================
