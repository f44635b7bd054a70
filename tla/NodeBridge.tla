----------------------------- MODULE NodeBridge -----------------------------
(***************************************************************************)
(* An addon in a Node process: the callbacks the code generator emits for  *)
(* exported functions, constructors and methods, the finalizer of an       *)
(* instance, and the asynchronous work behind an exported async function   *)
(* (the emit and convert functions of tn-codegen-llvm).                    *)
(*                                                                         *)
(* The emitters are operators that give the emitted code as a sequence of  *)
(* instructions, already specialised to the values of the call; `else` of  *)
(* an instruction is the code it continues with when it fails.  JavaScript *)
(* runs one piece of code at a time, workers execute the queued bodies.    *)
(*                                                                         *)
(* Memory is a set of blocks <<call, role, path>>.  Strings and bytes have *)
(* no owner in the language and are not counted; a block that is freed or  *)
(* used while it is not allocated is remembered in `misused`.              *)
(***************************************************************************)
EXTENDS NodeValues, SequencesExt

CONSTANTS ClassName,    \* the exported class
          Programs,     \* sequences of calls JavaScript may make
          Garbage,      \* words the stack may hold where nothing was written
          PoolThreads,  \* threads of the pool that executes queued work
          MaxFailures   \* failures of Node or of the allocator in one run

VARIABLES program,   \* the calls of this run (never changes)
          begun,     \* how many of them have begun
          exported,  \* the names JavaScript finds in the module
          now,       \* the call, or the completion, that is running
          code,      \* what is left of it
          live,      \* allocated blocks
          misused,   \* blocks freed or used while not allocated
          stale,     \* what the words of a wide integer held before (never changes)
          held,      \* constructor calls whose object JavaScript still has
          work,      \* per call: its work
          ended,     \* how its body ended on the worker
          promise,   \* its promise, and what that was settled with
          received,  \* what JavaScript got from the call
          failures   \* failures so far

bvars == <<program, begun, exported, now, code, live, misused, stale, held, work, ended, promise, received, failures>>
allocations == <<live, misused>>
module == <<exported, held>>
outcomes == <<work, ended, promise, received>>

ProgramCalls == DOMAIN program
Target(c) == program[c].to
Given(c) == program[c].arguments
Thrown(c) == Target(c).errors[program[c].throws]   \* the error its body throws
Throws(c) == program[c].throws # 0
Block(c, role) == <<c, role, <<>>>>

Nothing == [is |-> "nothing"]
Exception == [is |-> "exception"]
Object == [is |-> "object"]
Pending == [is |-> "promise"]
Value(v) == [is |-> "value", v |-> v]
Error(fields) == [is |-> "error", fields |-> fields]

-----------------------------------------------------------------------------
(* Instructions.  A call of Node, or of the allocator, may fail; the others *)
(* do what they are named for.                                              *)
Ask(else) == [do |-> "ask", else |-> else]
Fail(else) == [do |-> "fail", else |-> else]       \* a test that the values fail
Take(bs) == [do |-> "take", blocks |-> bs]
Use(bs) == [do |-> "use", blocks |-> bs]
Free(bs) == [do |-> "free", blocks |-> bs]
Native == [do |-> "native"]                        \* the native function
Answer(a) == [do |-> "answer", answer |-> a]
Settle(state, a) == [do |-> "settle", state |-> state, answer |-> a]
Set(what) == [do |-> what]                         \* "hold", "start", "defer", "queue", ...
Export(name) == [do |-> "export", name |-> name]

When(condition, instructions) == IF condition THEN instructions ELSE <<>>
Refused(instructions) == \E i \in DOMAIN instructions : instructions[i].do = "fail"

\* The block every failed test of a callback goes to.
ErrorBlock == <<Answer(Exception)>>

-----------------------------------------------------------------------------
(* Arguments. *)

\* The blocks of a native value at `path`, which the arrays in it own.
RECURSIVE BlocksOf(_, _, _, _)
BlocksOf(c, ty, v, path) ==
    LET shape == Shape(ty)
        elements == UNION {BlocksOf(c, shape.of, v[i], Append(path, i)) : i \in DOMAIN v}
    IN  CASE shape.kind \in {"optional", "fixed"} -> elements
          [] shape.kind = "array" -> {<<c, role, path>> : role \in {"object", "data", "flags"}} \cup elements
          [] OTHER -> {}

\* Those a value is answerable for: not what it borrows.
RECURSIVE OwnedBlocks(_, _, _, _)
OwnedBlocks(c, ty, v, path) ==
    LET shape == Shape(ty)
    IN  CASE shape.kind = "array" -> IF shape.borrowed THEN {} ELSE BlocksOf(c, ty, v, path)
          [] shape.kind \in {"optional", "fixed"} ->
               UNION {OwnedBlocks(c, shape.of, v[i], Append(path, i)) : i \in DOMAIN v}
          [] OTHER -> {}

ScalarCode(scalar, v, else) == <<Ask(else)>> \o When(~ScalarTakes(scalar, v), <<Fail(else)>>)

\* Its bytes are copied into a block of the bridge, and from there into a string.
StringCode(c, v, path, else) ==
    LET raw == <<c, "raw", path>>
    IN  <<Ask(else)>> \o When(v.js # "string", <<Fail(else)>>)
        \o <<Ask(else), Take({raw}), Ask(else), Use({raw}), Free({raw}), Ask(else)>>

BytesCode(v, else) ==
    <<Ask(else)>> \o (IF v.js # "octets" THEN <<Fail(else)>> ELSE When(v.text # "", <<Ask(else)>>))

RequireArray(v, else) ==
    <<Ask(else)>> \o When(v.js # "array", <<Fail(else)>>) \o <<Ask(else)>>

ArrayBlocks(c, path, else) ==
    <<Ask(else), Take({<<c, "object", path>>}), Take({<<c, "data", path>>, <<c, "flags", path>>}),
      Use({<<c, "object", path>>})>>

RECURSIVE ArgumentCode(_, _, _, _, _)

OptionalCode(c, ty, v, path, else) ==
    <<Ask(else)>> \o
    (IF v.js = "undefined" THEN <<>> ELSE ArgumentCode(c, ty.of, v, Append(path, 1), else))

FixedArrayCode(c, ty, v, path, else) ==
    RequireArray(v, else) \o
    (IF v.js # "array" THEN <<>>
     ELSE When(Len(v.elements) # ty.length, <<Fail(else)>>) \o
          FlattenSeq([i \in DOMAIN v.elements |->
              <<Ask(else)>> \o ArgumentCode(c, ty.of, v.elements[i], Append(path, i), else)]))

ArrayCode(c, ty, v, path, else) ==
    RequireArray(v, else) \o
    (IF v.js # "array" THEN <<>>
     ELSE ArrayBlocks(c, path, else) \o
          FlattenSeq([i \in DOMAIN v.elements |->
              <<Ask(else)>> \o ArgumentCode(c, Shape(ty).of, v.elements[i], Append(path, i), else)
              \o <<Use({<<c, "data", path>>, <<c, "flags", path>>})>>]))

ArgumentCode(c, ty, v, path, else) ==
    LET shape == Shape(ty)
    IN  CASE shape.kind = "scalar" -> ScalarCode(shape.scalar, v, else)
          [] shape.kind = "string" -> StringCode(c, v, path, else)
          [] shape.kind = "bytes" -> BytesCode(v, else)
          [] shape.kind = "optional" -> OptionalCode(c, shape, v, path, else)
          [] shape.kind = "fixed" -> FixedArrayCode(c, shape, v, path, else)
          [] shape.kind = "array" -> ArrayCode(c, ty, v, path, else)

-----------------------------------------------------------------------------
(* Results. *)
RECURSIVE ResultCode(_, _, _, _, _)

\* A buffer, the copy into it, and an array over it.
BytesResultCode(else) == <<Ask(else), Ask(else), Ask(else)>>

OptionalResultCode(c, ty, v, path, else) ==
    IF v = <<>> THEN <<Ask(else)>> ELSE ResultCode(c, ty.of, v[1], Append(path, 1), else)

FixedResultCode(c, ty, v, path, else) ==
    <<Ask(else)>> \o
    FlattenSeq([i \in DOMAIN v |-> ResultCode(c, ty.of, v[i], Append(path, i), else) \o <<Ask(else)>>])

ArrayResultCode(c, ty, v, path, else) ==
    <<Ask(else), Use({<<c, "object", path>>})>> \o
    FlattenSeq([i \in DOMAIN v |->
        <<Use({<<c, "data", path>>})>> \o ResultCode(c, ty.of, v[i], Append(path, i), else) \o <<Ask(else)>>])

ResultCode(c, ty, v, path, else) ==
    LET shape == Shape(ty)
    IN  CASE shape.kind \in {"void", "scalar", "string"} -> <<Ask(else)>>
          [] shape.kind = "bytes" -> BytesResultCode(else)
          [] shape.kind = "optional" -> OptionalResultCode(c, shape, v, path, else)
          [] shape.kind = "fixed" -> FixedResultCode(c, shape, v, path, else)
          [] shape.kind = "array" -> ArrayResultCode(c, shape, v, path, else)

\* A synchronous function drops what it returned once it is converted.
DropCode(c, ty, v, path) ==
    LET owned == OwnedBlocks(c, ty, v, path) IN When(owned # {}, <<Free(owned)>>)

\* The public fields of an error: the bridge counts the public ones only, and
\* reads the stored field of that number.
PublicFields(error) == SelectSeq(error.fields, LAMBDA field : field.public)
BridgedFields(error) ==
    [i \in DOMAIN PublicFields(error) |->
        [ty |-> PublicFields(error)[i].ty, v |-> error.fields[i].v]]

\* A message, an error object, and the name it goes by.
CreateError(else) == <<Ask(else), Ask(else), Ask(else), Ask(else)>>

ErrorCode(c, else) ==
    <<Use({Block(c, "envelope")})>> \o CreateError(else) \o
    FlattenSeq([i \in DOMAIN BridgedFields(Thrown(c)) |->
        <<Use({Block(c, "payload")})>>
        \o ResultCode(c, BridgedFields(Thrown(c))[i].ty, BridgedFields(Thrown(c))[i].v, <<0>>, else)
        \o <<Ask(else)>>])

ErrorAnswer(c) ==
    Error([i \in DOMAIN BridgedFields(Thrown(c)) |->
              ResultValue(BridgedFields(Thrown(c))[i].ty, BridgedFields(Thrown(c))[i].v)])

\* Mutant: the envelope is freed before the payload is read from it.
ReleaseErrorEnvelopeFirst(c) ==
    <<Free({Block(c, "envelope")}), Use({Block(c, "envelope")}), Free({Block(c, "payload")})>>

ReleaseError(c) ==
    <<Use({Block(c, "envelope")}), Free({Block(c, "payload")}), Free({Block(c, "envelope")})>>

-----------------------------------------------------------------------------
(* The native functions.  A body returns its first argument ("echo") or a   *)
(* value it makes ("make"), or throws; what it was given and does not return *)
(* it drops.                                                                *)
Argument(c, i) == ArgumentValue(Target(c).parameters[i], Given(c)[i], stale)
ResultType(f) == IF f.async THEN f.result.of ELSE f.result
Echoes(c) == Target(c).body = "echo"
Returned(c) == IF Echoes(c) THEN Argument(c, 1) ELSE Target(c).value
ReturnPath(c) == IF Echoes(c) THEN <<1>> ELSE <<0>>

ArgumentBlocks(c) ==
    UNION {BlocksOf(c, Target(c).parameters[i], Argument(c, i), <<i>>) : i \in DOMAIN Given(c)}
OwnedArguments(c) ==
    UNION {OwnedBlocks(c, Target(c).parameters[i], Argument(c, i), <<i>>) : i \in DOMAIN Given(c)}
Receiver(c) == IF program[c].on = 0 THEN {} ELSE {Block(program[c].on, "native")}
ResultBlocks(c) == OwnedBlocks(c, ResultType(Target(c)), Returned(c), ReturnPath(c))

\* A wrapper gives a large result back in a block of its own.
ReturnedBlock(c) ==
    LET f == Target(c)
    IN  IF ~f.async /\ f.result # Void /\ IsIndirect(f.result) THEN {Block(c, "returned")} ELSE {}

NativeObject(c) == IF Target(c).kind = "constructor" THEN {Block(c, "native")} ELSE {}

BodyLeaves(c) ==
    IF Throws(c) THEN {Block(c, "envelope"), Block(c, "payload")}
    ELSE ResultBlocks(c) \cup ReturnedBlock(c) \cup NativeObject(c)

\* An asynchronous function only captures its arguments, and a promise that is
\* dropped before its body drops, of those, the fields of the arrays.
Captured(c) == {b \in OwnedArguments(c) : Len(b[3]) > 1 \/ b[2] # "object"}

-----------------------------------------------------------------------------
(* Callbacks. *)
ArgumentsCode(c, else) ==
    <<Ask(else)>> \o
    (IF Len(Given(c)) # Len(Target(c).parameters) THEN <<Fail(else)>>
     ELSE FlattenSeq([i \in DOMAIN Given(c) |->
              ArgumentCode(c, Target(c).parameters[i], Given(c)[i], <<i>>, else)]))

\* What the native function returned or threw, for JavaScript.
ReturnCode(c) ==
    LET f == Target(c)
        convert == ResultCode(c, f.result, Returned(c), ReturnPath(c), ErrorBlock)
        returned == {Block(c, "returned")}
        large == f.result # Void /\ IsIndirect(f.result)
    IN  IF Throws(c) THEN ErrorCode(c, ErrorBlock) \o <<Answer(ErrorAnswer(c))>> \o ReleaseError(c)
        ELSE When(large, <<Use(returned)>>) \o convert
             \o When(f.kind = "function" /\ f.errors = <<>>, DropCode(c, f.result, Returned(c), ReturnPath(c)))
             \o When(large, <<Free(returned)>>)
             \o <<Answer(Value(ResultValue(f.result, Returned(c))))>>

\* An asynchronous function: the promise of JavaScript, a context, and the work
\* that waits for the native promise.
StartFailure(c, context) == context \o <<Set("destroy")>> \o ErrorBlock

StartCode(c, started) ==
    LET early == StartFailure(c, <<>>)
        uncreated == <<Free(Captured(c))>> \o ErrorBlock
    IN  <<Ask(uncreated), Set("start"), Ask(early), Set("defer"), Ask(early), Take({Block(c, "context")})>> \o started

WorkCode(c) ==
    LET context == {Block(c, "context")}
        late == StartFailure(c, <<Free(context)>>)
    IN  <<Ask(late), Ask(late), Use(context), Ask(<<Set("delete")>> \o late), Set("queue"), Answer(Pending)>>

FunctionCode(c) ==
    LET arguments == ArgumentsCode(c, ErrorBlock)
    IN  arguments \o
        (IF Refused(arguments) THEN <<>>
         ELSE IF Target(c).async THEN StartCode(c, WorkCode(c)) ELSE <<Native>> \o ReturnCode(c))

ConstructorCode(c) ==
    LET arguments == ArgumentsCode(c, ErrorBlock)
    IN  arguments \o
        When(~Refused(arguments), <<Native, Ask(ErrorBlock), Set("hold"), Answer(Object)>>)

\* The object a method is called on, which must wrap an instance.
ReceiverCode(c) ==
    IF Target(c).static THEN <<>>
    ELSE IF program[c].on = 0 THEN <<Fail(ErrorBlock)>> ELSE <<Ask(ErrorBlock)>>

MethodCode(c) ==
    LET arguments == ReceiverCode(c) \o ArgumentsCode(c, ErrorBlock)
    IN  arguments \o When(~Refused(arguments), <<Native>> \o ReturnCode(c))

CallbackCode(c) ==
    CASE Target(c).kind = "function" -> FunctionCode(c)
      [] Target(c).kind = "constructor" -> ConstructorCode(c)
      [] Target(c).kind = "method" -> MethodCode(c)

FinalizerCode(c) == <<Use({Block(c, "native")}), Free({Block(c, "native")})>>

\* On the main thread, when the work was done or cancelled.
CleanupCode(c) == <<Use({Block(c, "context")}), Set("delete"), Set("destroy"), Free({Block(c, "context")})>>

\* Mutant: the promise is not rejected.
RejectionForgets(c) == <<Use({Block(c, "context")})>>

RejectionCode(c) == <<Use({Block(c, "context")}), Settle("rejected", Exception)>>

ThrownCode(c) ==
    ErrorCode(c, RejectionCode(c) \o ReleaseError(c) \o CleanupCode(c))
    \o <<Settle("rejected", ErrorAnswer(c))>> \o ReleaseError(c) \o CleanupCode(c)

ReturnedCode(c) ==
    LET f == Target(c)
    IN  <<Use({Block(c, "promise")})>>
        \o ResultCode(c, f.result.of, Returned(c), ReturnPath(c), RejectionCode(c) \o CleanupCode(c))
        \o <<Settle("resolved", Value(ResultValue(f.result, Returned(c))))>> \o CleanupCode(c)

CompletionCode(c) ==
    IF work[c] = "cancelled" THEN RejectionCode(c) \o CleanupCode(c)
    ELSE IF ended[c] = "thrown" THEN ThrownCode(c) ELSE ReturnedCode(c)

\* The module exports what its programs call.  When a step fails, the names set
\* before stay, and so does a class without its methods.
NamesOf(kind) == SetToSeq({Target(c).name : c \in {d \in ProgramCalls : Target(d).kind = kind}})
ExportCode(name) == <<Ask(<<>>), Ask(<<>>), Export(name)>>
MethodsCode ==
    LET methods == NamesOf("method")
    IN  When(methods # <<>>, <<Ask(<<>>)>> \o FlattenSeq([i \in DOMAIN methods |-> ExportCode(methods[i])]))
ClassCode == ExportCode(ClassName) \o MethodsCode
InitializerCode ==
    LET functions == NamesOf("function")
    IN  FlattenSeq([i \in DOMAIN functions |-> ExportCode(functions[i])]) \o ClassCode

-----------------------------------------------------------------------------
BridgeInit ==
    /\ program \in Programs
    /\ begun = 0 /\ now = 0 /\ failures = 0
    /\ exported = {} /\ held = {} /\ live = {} /\ misused = {}
    /\ code = InitializerCode
    /\ stale \in Garbage
    /\ work = [c \in ProgramCalls |-> "none"]
    /\ ended = [c \in ProgramCalls |-> "running"]
    /\ promise = [c \in ProgramCalls |-> [state |-> "none"]]
    /\ received = [c \in ProgramCalls |-> Nothing]

\* JavaScript makes the next call, if there is something to call.
NextCall ==
    /\ code = <<>> /\ begun < Len(program)
    /\ begun' = begun + 1
    /\ LET c == begun + 1
       IN  IF Target(c).name \in exported /\ program[c].on \in held \cup {0}
           THEN now' = c /\ code' = CallbackCode(c) /\ UNCHANGED received
           ELSE received' = [received EXCEPT ![c] = Exception] /\ UNCHANGED <<now, code>>
    /\ UNCHANGED <<program, module, allocations, stale, work, ended, promise, failures>>

Running(what) == code # <<>> /\ Head(code).do = what
Proceed == code' = Tail(code)
Abandon == "else" \in DOMAIN Head(code) /\ code' = Head(code).else

\* Node and the allocator do what they are asked, or fail.
Succeed ==
    /\ Running("ask")
    /\ Proceed
    /\ UNCHANGED <<program, begun, module, now, allocations, stale, outcomes, failures>>

FailOnce ==
    /\ Running("ask") /\ failures < MaxFailures
    /\ failures' = failures + 1
    /\ Abandon
    /\ UNCHANGED <<program, begun, module, now, allocations, stale, outcomes>>

Refuse ==
    /\ Running("fail")
    /\ Abandon
    /\ UNCHANGED <<program, begun, module, now, allocations, stale, outcomes, failures>>

Access ==
    /\ \/ Running("take") /\ live' = live \cup Head(code).blocks /\ UNCHANGED misused
       \/ Running("use") /\ misused' = misused \cup (Head(code).blocks \ live) /\ UNCHANGED live
       \/ Running("free") /\ misused' = misused \cup (Head(code).blocks \ live)
                          /\ live' = live \ Head(code).blocks
    /\ Proceed
    /\ UNCHANGED <<program, begun, module, now, stale, outcomes, failures>>

\* The body of a native function, or of an asynchronous one on the worker.
Body(c) ==
    /\ misused' = misused \cup ((ArgumentBlocks(c) \cup Receiver(c)) \ live)
    /\ live' = (live \ (OwnedArguments(c) \ IF Throws(c) THEN {} ELSE ResultBlocks(c))) \cup BodyLeaves(c)

CallNative ==
    /\ Running("native")
    /\ Body(now)
    /\ Proceed
    /\ UNCHANGED <<program, begun, module, now, stale, outcomes, failures>>

\* An asynchronous function keeps its arguments for the worker.
StartNative ==
    /\ Running("start")
    /\ live' = live \cup {Block(now, "promise")}
    /\ Proceed
    /\ UNCHANGED <<program, begun, module, now, misused, stale, outcomes, failures>>

\* The native promise ends with the bridge: nobody else has it.
DestroyPromise ==
    /\ Running("destroy")
    /\ LET dropped == {Block(now, "promise")} \cup (IF ended[now] = "running" THEN Captured(now) ELSE {})
       IN  live' = live \ dropped /\ misused' = misused \cup (dropped \ live)
    /\ Proceed
    /\ UNCHANGED <<program, begun, module, now, stale, outcomes, failures>>

\* What Node keeps.
Register ==
    /\ \/ Running("export") /\ exported' = exported \cup {Head(code).name} /\ UNCHANGED held
       \/ Running("hold") /\ held' = held \cup {now} /\ UNCHANGED exported
    /\ Proceed
    /\ UNCHANGED <<program, begun, now, allocations, stale, outcomes, failures>>

Schedule ==
    /\ \/ Running("queue") /\ work' = [work EXCEPT ![now] = "queued"]
       \/ Running("delete") /\ work' = [work EXCEPT ![now] = "deleted"]
    /\ Proceed
    /\ UNCHANGED <<program, begun, module, now, allocations, stale, ended, promise, received, failures>>

Report ==
    /\ \/ Running("answer") /\ received' = [received EXCEPT ![now] = Head(code).answer] /\ UNCHANGED promise
       \/ Running("defer") /\ promise' = [promise EXCEPT ![now] = [state |-> "pending"]] /\ UNCHANGED received
       \/ Running("settle") /\ UNCHANGED received
          /\ promise' = [promise EXCEPT ![now] =
               IF promise[now].state = "pending" THEN [state |-> Head(code).state, with |-> Head(code).answer]
               ELSE [state |-> "settled twice"]]
    /\ Proceed
    /\ UNCHANGED <<program, begun, module, now, allocations, stale, work, ended, failures>>

Step == \/ Succeed \/ FailOnce \/ Refuse \/ Access \/ CallNative \/ StartNative \/ DestroyPromise
        \/ Register \/ Schedule \/ Report

\* A thread of the pool takes queued work and waits for the native promise.
Execute(c) ==
    /\ work[c] = "queued" /\ Cardinality({d \in ProgramCalls : work[d] = "executing"}) < PoolThreads
    /\ work' = [work EXCEPT ![c] = "executing"]
    /\ UNCHANGED <<program, begun, module, now, code, allocations, stale, ended, promise, received, failures>>

Finish(c) ==
    /\ work[c] = "executing"
    /\ work' = [work EXCEPT ![c] = "executed"]
    /\ ended' = [ended EXCEPT ![c] = IF Throws(c) THEN "thrown" ELSE "returned"]
    /\ Body(c)
    /\ UNCHANGED <<program, begun, module, now, code, stale, promise, received, failures>>

\* Node ends work that no thread has taken, when the environment closes.
Cancel(c) ==
    /\ work[c] = "queued" /\ failures < MaxFailures
    /\ failures' = failures + 1
    /\ work' = [work EXCEPT ![c] = "cancelled"]
    /\ UNCHANGED <<program, begun, module, now, code, allocations, stale, ended, promise, received>>

Complete(c) ==
    /\ code = <<>> /\ work[c] \in {"executed", "cancelled"}
    /\ now' = c /\ code' = CompletionCode(c)
    /\ work' = [work EXCEPT ![c] = "completing"]
    /\ UNCHANGED <<program, begun, module, allocations, stale, ended, promise, received, failures>>

\* JavaScript has no more use for an object.
Collect(c) ==
    /\ code = <<>> /\ c \in held
    /\ \A d \in ProgramCalls : d > begun => program[d].on # c
    /\ held' = held \ {c} /\ now' = c /\ code' = FinalizerCode(c)
    /\ UNCHANGED <<program, begun, exported, allocations, stale, outcomes, failures>>

BridgeNext ==
    \/ NextCall \/ Step
    \/ \E c \in ProgramCalls : Execute(c) \/ Finish(c) \/ Cancel(c) \/ Complete(c) \/ Collect(c)

\* Node runs the code it has begun and its loop, and the threads of its pool.
\* Calls of JavaScript and its collector need never come.
BridgeFairness ==
    /\ WF_code(code # <<>> /\ (Proceed \/ Abandon))
    /\ WF_bvars(\E c \in ProgramCalls : Execute(c) \/ Finish(c))
    /\ WF_bvars(\E c \in ProgramCalls : Complete(c))

BridgeSpec == BridgeInit /\ [][BridgeNext]_bvars /\ BridgeFairness

-----------------------------------------------------------------------------
(* What JavaScript can rely on. *)

\* A promise JavaScript was given is settled in the end: the start of an
\* asynchronous call throws instead when the work cannot be queued, and a
\* conversion that fails on completion still rejects.
PromisesSettle == <>[](\A c \in ProgramCalls : received[c] = Pending => promise[c].state \in {"resolved", "rejected"})

\* The values of JavaScript that a type has.
RECURSIVE Fits(_, _)
Fits(ty, v) ==
    LET shape == Shape(ty)
        unsigned(width) == v.n >= 0 /\ v.n < 2 ^ width
        signed(width) == -(2 ^ (width - 1)) <= v.n /\ v.n < 2 ^ (width - 1)
        scalar == shape.scalar
    IN  CASE shape.kind = "string" -> v.js = "string"
          [] shape.kind = "bytes" -> v.js = "octets"
          [] shape.kind = "optional" -> v.js = "undefined" \/ Fits(shape.of, v)
          [] shape.kind = "array" -> v.js = "array" /\ \A i \in DOMAIN v.elements : Fits(shape.of, v.elements[i])
          [] shape.kind = "fixed" ->
               /\ v.js = "array" /\ Len(v.elements) = shape.length
               /\ \A i \in DOMAIN v.elements : Fits(shape.of, v.elements[i])
          [] scalar = "bool" -> v.js = "boolean"
          [] scalar \in {"i8", "i16", "i32"} -> v.js = "number" /\ signed(Bits[scalar])
          [] scalar = "u8" -> v.js = "number" /\ unsigned(Bits["i8"])
          [] scalar = "u16" -> v.js = "number" /\ unsigned(Bits["i16"])
          [] scalar = "u32" -> v.js = "number" /\ unsigned(Bits["i32"])
          [] scalar = "i64" -> v.js = "bigint" /\ signed(Bits["word"])
          [] scalar = "u64" -> v.js = "bigint" /\ unsigned(Bits["word"])
          [] scalar = "i128" -> v.js = "bigint" /\ signed(2 * Bits["word"])
          [] scalar = "u128" -> v.js = "bigint" /\ unsigned(2 * Bits["word"])
          [] scalar \in {"f32", "f64"} -> v.js = "number"
          [] scalar = "char" ->
               /\ v.js = "number" /\ 0 <= v.n /\ v.n <= LastCodePoint
               /\ v.n < FirstSurrogate \/ v.n >= AfterSurrogates

Outcome(c) == IF received[c] = Pending /\ "with" \in DOMAIN promise[c] THEN promise[c].with ELSE received[c]
Reachable(c) ==
    /\ program[c].on # 0 \/ Target(c).kind # "method" \/ Target(c).static
    /\ Len(Given(c)) = Len(Target(c).parameters)
Accepted(c) == Reachable(c) /\ \A i \in DOMAIN Given(c) : Fits(Target(c).parameters[i], Given(c)[i])
ThrownFields(c) ==
    LET fields == PublicFields(Thrown(c))
    IN  Error([i \in DOMAIN fields |-> ResultValue(fields[i].ty, fields[i].v)])

\* When nothing fails, a value a type has goes to a native function and comes
\* back unchanged, whatever its boundary; a value the type has not is refused
\* with an exception, never changed into another; and an error the function
\* throws arrives with its public fields, thrown or as a rejection.
AnswersTell ==
    failures = 0 => \A c \in ProgramCalls : Outcome(c) \notin {Nothing, Pending} =>
        CASE ~Accepted(c) -> Outcome(c) = Exception
          [] Accepted(c) /\ Throws(c) -> Outcome(c) = ThrownFields(c)
          [] Accepted(c) /\ ~Throws(c) /\ Echoes(c) -> Outcome(c) = Value(Given(c)[1])
          [] OTHER -> Outcome(c) # Exception

\* What the emitted code never gives back: the native copies of borrowed arrays
\* and, of methods and of asynchronous functions, the arrays they return.
BorrowedCopies(c) == IF Accepted(c) THEN ArgumentBlocks(c) \ OwnedArguments(c) ELSE {}
KeptResults(c) ==
    IF Accepted(c) /\ ~Throws(c) /\ (Target(c).async \/ Target(c).kind = "method" \/ Target(c).errors # <<>>)
    THEN ResultBlocks(c) ELSE {}

Quiet ==
    /\ code = <<>> /\ begun = Len(program) /\ held = {}
    /\ \A c \in ProgramCalls : work[c] \in {"none", "deleted"}

\* Whatever fails, and whenever the worker finishes: no block of the bridge, of
\* an error, of an instance or of a promise is freed twice or used after it was
\* freed, and no deferred is settled a second time.  When nothing fails and every
\* value is accepted, and JavaScript has let go of its objects, nothing the bridge
\* or a native function allocated is left, besides those.
EverythingFreedOnce ==
    /\ misused = {}
    /\ \A c \in ProgramCalls : promise[c].state # "settled twice"
    /\ Quiet /\ failures = 0 /\ (\A c \in ProgramCalls : Accepted(c)) =>
          live \subseteq UNION {BorrowedCopies(c) \cup KeptResults(c) : c \in ProgramCalls}

\* Signatures the driver lets through and the emitter has no agreeing form for.
Unmatched(f) ==
    \/ \E ty \in Parameters(f) \cup {f.result} : ty.kind = "reference" /\ ty.of.kind \in {"string", "slice"}
    \/ f.errors # <<>> /\ ~f.async /\
         (f.kind = "constructor" \/ ~Packable(f.result) \/
          (f.result = Void /\ \E ty \in Parameters(f) : IsIndirect(ty)))

\* The callback passes arguments and takes the result in the form of the wrapper
\* the driver asked for, though each decides for itself which types are passed
\* by address.
FormsAgree ==
    \A c \in ProgramCalls : Valid(Target(c)) /\ ~Unmatched(Target(c)) => CallerForm(Target(c)) = CalleeForm(Target(c))

=============================================================================
